---- MODULE Spec2Model ----
(***************************************************************************)
(* A model of the evaluation orchestrator of orby.digitalagent:            *)
(*   - run_single_benchmark, run_examples_in_subprocess, run_examples and  *)
(*     run_example (the batch scheduler and its worker processes): Spec    *)
(*   - one call of run_examples_in_subprocess: SpecWorker                  *)
(*   - one call of run_with_timeout and the process tree: SpecKill         *)
(*   - run_eval_with_wa_service and its waves of instances: SpecWave       *)
(*   - _divide_eval_config and what it is given back: SpecDivide           *)
(*   - run_eval, from the validation to the results table: SpecRunEval,    *)
(*     SpecRunEvalAgent                                                    *)
(*   - one call of run_example, step by step: SpecExample                  *)
(*   - the objects the RunUnits refer to: SpecShare                        *)
(*   - one call of create_instance: SpecCreate                             *)
(*   - one call of get_env_ids_and_task_kwargs: SpecResolve                *)
(*   - run_single_benchmark of a visualwebarena benchmark: SpecVwa         *)
(* and of the trajectory collector of orby.trajectory_collector:           *)
(*   - one FrequencyLimiter and the tasks sharing it: SpecLimiter,         *)
(*     SpecLimiterCalls                                                    *)
(*   - one call of trajectory_collection_multiprocess: SpecMultiprocess    *)
(***************************************************************************)
EXTENDS Integers, Sequences, FiniteSets, TLC

VARIABLES
    \* run_single_benchmark and the worker processes it dispatches
    env_ids,        \* the resolved id list of the RunUnit
    batch_size,     \* runner_config.batch_size
    threads,        \* runner_config.threads
    batch,          \* per batch: the future / worker process running it
    rewards,        \* the list `rewards` of run_single_benchmark
    reward_ids,     \* history: the id whose task produced rewards[i]
    pc,             \* where run_single_benchmark stands
    ret,            \* what run_single_benchmark returned
    \* one call of run_examples_in_subprocess, with its worker process
    example_env_names,  \* the ids of the batch
    tries,          \* the tries @retry has left, this one included
    process,        \* the worker: none, alive, exited, died, reaped or killed
    trace,          \* history: what each task run by this worker did
    output_queue,   \* the multiprocessing.Queue of this attempt
    sub_pc,         \* running, returned or TimeoutError
    result,         \* the list run_examples_in_subprocess returned
    executed,       \* history: how many times run_example was called for each id of the batch
    \* run_with_timeout and the process tree of its worker
    procs,          \* the pids of the running processes the worker started, itself included
    ppid,           \* pid -> parent pid (0: re-parented to init)
    n_spawned,      \* the number of pids handed out so far
    never_returns,  \* whether the worker's function never returns control
    kill_pc,        \* where run_with_timeout stands
    is_timeout,     \* its local is_timeout
    processes,      \* its local processes, as far as not yet killed
    \* run_eval_with_wa_service: the waves of RunUnits on remote instances
    n_configs,      \* len(configs): the RunUnits are configs[0 .. n_configs-1]
    max_ips,        \* the argument max_ips
    start_idx,      \* start_idx of the wave loop
    stop_idx,       \* stop_idx of the wave loop
    num_instances,  \* the number of instances the current wave requested
    instance_ids,   \* the instance ids the current wave obtained
    public_ips,     \* their addresses, in the same order
    callbacks,      \* per release callback: the argument it passes to release_instance
    run_i,          \* the index i of _setup_and_run_all_eval_runs
    wave_pc,        \* where run_eval_with_wa_service stands
    n_created,      \* the number of instances the service has handed out
    deferred,       \* history: how many RunUnits the last wave left for the next
    ran,            \* history: the RunUnits run so far, with the address each used
    exited,         \* history: the instances whose RunUnit has ended, or never will run
    release_calls,  \* history: the arguments of the calls of release_instance
    n_waves,        \* history: the number of passes of the wave loop begun
    \* run_eval and _divide_eval_config
    full_config,    \* the EvalConfig given
    div_pc,         \* where run_eval stands
    divided_configs,    \* the list _divide_eval_config returned
    redivided,      \* history: what _divide_eval_config returned for each of them
    trial,          \* the index i of _setup_and_run_all_eval_runs
    scheduled,      \* history: the ids each trial scheduled
    results_rows,   \* results_rows of _setup_and_run_all_eval_runs
    aggregated,     \* the rows of the aggregated results table
    wa_service,     \* whether the entry point is run_eval_with_wa_service
    n_requested,    \* history: the number of instances requested from the service
    output_dir,     \* whether config.runner.output_dir is set
    \* one call of run_example, step by step
    max_steps,      \* benchmark_config.max_steps
    n_steps,        \* its local n_steps
    steps_taken,    \* history: the number of calls of env.step that returned
    reward,         \* its local reward
    late,           \* whether time.time() - start_time > timeout by now
    server_handler, \* whether an auxiliary server was started (server_handler is set)
    cleanups,       \* history: the number of calls of server_handler.cleanup()
    ex_pc,          \* where run_example stands
    ended,          \* history: what ended the interaction loop
    \* the objects of _divide_eval_config: which configuration refers to which
    n_shards,       \* per benchmark of full_config: 0 (not sharded) or its number of shards
    n_models,       \* per agent of full_config: the number of its model names
    units,          \* the list returned: per RunUnit, the object each part refers to
    written,        \* history: the objects _divide_eval_config assigned a field of
    dirty,          \* history: the objects mutated after the division
    mutated,        \* history: the (RunUnit, part) pairs the mutations went through
    share_pc,       \* where the division stands
    \* one call of create_instance, with its retry decorator
    ci_tries,       \* the tries the retry decorator has left
    n_requests,     \* history: the number of calls of request_instance
    instance_id,    \* its local instance_id: None, or the id the last request returned
    n_polls,        \* the number of status queries of the current id that said "wait"
    poll_retries,   \* history: the requests issued because the polling raised
    ready_pairs,    \* history: the (id, address) pairs the status query reported ready
    created,        \* what create_instance returned: None, or the pair
    ci_pc,          \* where create_instance stands
    \* one call of get_env_ids_and_task_kwargs
    res_benchmark,  \* the BenchmarkConfig given
    shuffle_seed,   \* the ordering seed given
    res_result,     \* what it returned, or the exception raised
    res_pc,         \* where the call stands
    \* one FrequencyLimiter and the tasks that share it
    request_limit,      \* self.request_limit
    time_window_sec,    \* self.time_window_sec
    action_time_queue,  \* self.action_time_queue
    clock,              \* time.time(), in seconds
    task_pc,            \* where each trajectory_collection task stands
    wake_at,            \* when each task's sleep ends
    started_at,         \* when each task started its work
    last_call,          \* the last call: method, queue length found, value returned
    \* run_single_benchmark of a visualwebarena benchmark
    resolved_ids,       \* the ids get_env_ids_and_task_kwargs returned
    vwa_batch_size,     \* runner_config.batch_size
    env_ids_with_reset, \* its local env_ids_with_reset
    env_ids_rest,       \* its local env_ids, once the ids with reset are taken out
    rewards_with_reset, \* its local rewards_with_reset
    processed,          \* its local processed
    pool_left,          \* the batches of env_ids not completed yet, by first index
    pool_rewards,       \* its local rewards
    vwa_pc,             \* where it stands
    vwa_ret,            \* what it returned
    \* one call of trajectory_collection_multiprocess
    n_rows,         \* len(input_data_df)
    row_outcomes,   \* history: what the worker process of each row did
    mp_results,     \* its local results
    mp_pc           \* where it stands

schedVars == <<env_ids, batch_size, threads, batch, rewards, reward_ids, pc, ret>>

workerVars == <<example_env_names, tries, process, trace, output_queue, sub_pc, result,
                executed>>

killVars == <<procs, ppid, n_spawned, never_returns, kill_pc, is_timeout, processes>>

waveVars == <<n_configs, max_ips, start_idx, stop_idx, num_instances, instance_ids,
              public_ips, callbacks, run_i, wave_pc, n_created, deferred, ran,
              exited, release_calls, n_waves>>

divVars == <<full_config, div_pc, divided_configs, redivided, trial, scheduled,
             results_rows, aggregated, wa_service, n_requested,
             output_dir>>

exVars == <<max_steps, n_steps, steps_taken, reward, late, server_handler,
             cleanups, ex_pc, ended>>

shareVars == <<n_shards, n_models, units, written, dirty, mutated, share_pc>>

ciVars == <<ci_tries, n_requests, instance_id, n_polls, poll_retries,
             ready_pairs, created, ci_pc>>

resVars == <<res_benchmark, shuffle_seed, res_result, res_pc>>

limVars == <<request_limit, time_window_sec, action_time_queue, clock,
              task_pc, wake_at, started_at, last_call>>

vwaVars == <<resolved_ids, vwa_batch_size, env_ids_with_reset, env_ids_rest,
              rewards_with_reset, processed, pool_left, pool_rewards, vwa_pc,
              vwa_ret>>

mpVars == <<n_rows, row_outcomes, mp_results, mp_pc>>

vars == <<schedVars, workerVars, killVars, waveVars, divVars, exVars,
          shareVars, ciVars, resVars, limVars, vwaVars, mpVars>>

\* what an action of one part of the program leaves alone: the other parts
SchedFrame == UNCHANGED <<workerVars, killVars, waveVars, divVars, exVars,
    shareVars, ciVars, resVars, limVars, vwaVars, mpVars>>

WorkerFrame == UNCHANGED <<schedVars, killVars, waveVars, divVars, exVars,
    shareVars, ciVars, resVars, limVars, vwaVars, mpVars>>

KillFrame == UNCHANGED <<schedVars, workerVars, waveVars, divVars, exVars,
    shareVars, ciVars, resVars, limVars, vwaVars, mpVars>>

WaveFrame == UNCHANGED <<schedVars, workerVars, killVars, divVars, exVars,
    shareVars, ciVars, resVars, limVars, vwaVars, mpVars>>

DivFrame == UNCHANGED <<schedVars, workerVars, killVars, waveVars, exVars,
    shareVars, ciVars, resVars, limVars, vwaVars, mpVars>>

ExFrame == UNCHANGED <<schedVars, workerVars, killVars, waveVars, divVars,
    shareVars, ciVars, resVars, limVars, vwaVars, mpVars>>

ShareFrame == UNCHANGED <<schedVars, workerVars, killVars, waveVars, divVars,
    exVars, ciVars, resVars, limVars, vwaVars, mpVars>>

CiFrame == UNCHANGED <<schedVars, workerVars, killVars, waveVars, divVars,
    exVars, shareVars, resVars, limVars, vwaVars, mpVars>>

ResFrame == UNCHANGED <<schedVars, workerVars, killVars, waveVars, divVars,
    exVars, shareVars, ciVars, limVars, vwaVars, mpVars>>

LimFrame == UNCHANGED <<schedVars, workerVars, killVars, waveVars, divVars,
    exVars, shareVars, ciVars, resVars, vwaVars, mpVars>>

VwaFrame == UNCHANGED <<schedVars, workerVars, killVars, waveVars, divVars,
    exVars, shareVars, ciVars, resVars, limVars, mpVars>>

MpFrame == UNCHANGED <<schedVars, workerVars, killVars, waveVars, divVars,
    exVars, shareVars, ciVars, resVars, limVars, vwaVars>>

----------------------------------------------------------------------------
(* Bounds of the model *)
MaxIds == 3
MaxBatch == 2
MaxThreads == 2
MaxBatchLen == 3
MaxProcs == 4
MaxConfigs == 4
MaxUniverse == 3
MaxInclude == 2
MaxExamples == 2
MaxShard == 2
MaxPool == 2
MaxModels == 2

(* @retry((TimeoutError), tries=3, delay=2) *)
Tries == 3

Min(a, b) == IF a < b THEN a ELSE b

RECURSIVE SumSeq(_)
SumSeq(s) == IF s = <<>> THEN 0 ELSE Head(s) + SumSeq(Tail(s))

----------------------------------------------------------------------------
(* run_example *)

\* the places of run_example where a call into the agent, the environment
\* or the file system can raise
Points == {"agent_builder", "env_make", "reset", "act", "step", "record", "close"}

\* what is raised there: nothing, gym.error.NameNotFound, any other
\* Exception that is not a RuntimeError, or a RuntimeError
Kinds == {"none", "NameNotFound", "Exception", "RuntimeError"}

\* `if isinstance(ex, RuntimeError): raise ex` of the interaction's handler
IsReraisedNever(k) == FALSE
IsReraised(k) == k = "RuntimeError"

\* Whether an exception of kind k raised at point p leaves run_example:
\* the agent is built outside any try; the environment is made under
\* `except gym.error.NameNotFound`; reset/act/step run under
\* `except Exception`, which re-raises a RuntimeError; the recording of the
\* result and env.close() run outside any try.
Propagates(p, k) ==
    CASE p = "agent_builder" -> TRUE
      [] p = "env_make" -> k # "NameNotFound"
      [] p \in {"reset", "act", "step"} -> IsReraised(k)
      [] OTHER -> TRUE

\* The outcome of one call of run_example in which an exception of kind k
\* is raised at point p (k = "none": nothing is raised and the environment's
\* last reward is r): the returned reward, or -1 when the exception
\* propagates to the caller.
run_example(p, k, r) ==
    IF k = "none" THEN r
    ELSE IF Propagates(p, k) THEN -1
    ELSE 0

----------------------------------------------------------------------------
(* run_examples and run_examples_in_subprocess *)

\* what one call of run_example can do: return 0 or 1, or raise (-1)
ExampleOutcomes ==
    {run_example(p, k, r) : p \in Points, k \in Kinds, r \in {0, 1}}

Zeros(n) == [i \in 1..n |-> 0]

\* run_examples: the tasks run in order, and outs[i] is what run_example
\* does for the i-th; the rewards are put on the output queue after the
\* loop, which an exception leaving run_example never reaches. The value is
\* the content of the output queue when the worker is gone.
run_examples(outs) ==
    IF \E i \in DOMAIN outs : outs[i] = -1 THEN <<>> ELSE <<outs>>

\* run_examples_in_subprocess, after run_with_timeout has returned without
\* a TimeoutError: the queue's content, or zeros when the queue is empty
QueueOrZeros(queue, n) ==
    IF queue # <<>> THEN Head(queue) ELSE Zeros(n)

----------------------------------------------------------------------------
(* run_single_benchmark *)

\* range(0, len(env_ids), batch_size)
NumBatches == (Len(env_ids) + batch_size - 1) \div batch_size

\* env_ids[i : i + batch_size]
BatchIds(b) ==
    SubSeq(env_ids, (b - 1) * batch_size + 1, Min(b * batch_size, Len(env_ids)))

Batches == 1..NumBatches

InFlight == {b \in Batches : batch[b].status = "running"}

Finished(b) == batch[b].status \in {"extended", "dropped"}

IdleBatch == [status |-> "queued", tries |-> Tries, result |-> <<>>]

SchedInit ==
    /\ env_ids \in {[i \in 1..n |-> i] : n \in 0..MaxIds}
    /\ batch_size \in 1..MaxBatch
    /\ threads \in 1..MaxThreads
    /\ batch = [b \in Batches |-> IdleBatch]
    /\ rewards = <<>>
    /\ reward_ids = <<>>
    /\ pc = "run"
    /\ ret = [num_total |-> -1, num_success |-> -1]

\* threads == 1: the batches run one after the other in the caller;
\* otherwise executor.submit queues them all and at most `threads` run at
\* once, taken in submission order.
MayStart(b) ==
    /\ batch[b].status = "queued"
    /\ \A c \in Batches : c < b => batch[c].status # "queued"
    /\ IF threads = 1
       THEN \A c \in Batches : c < b => Finished(c)
       ELSE Cardinality(InFlight) < threads

\* run_examples_in_subprocess is called for batch b
StartBatch(b) ==
    /\ pc = "run"
    /\ MayStart(b)
    /\ batch' = [batch EXCEPT ![b].status = "running"]
    /\ UNCHANGED <<env_ids, batch_size, threads, rewards, reward_ids, pc, ret>>
    /\ SchedFrame

\* The worker of batch b runs to its end (it exits after the put, or dies of
\* an exception) within the budget; run_with_timeout returns and
\* run_examples_in_subprocess returns the rewards.
BatchReturns(b) ==
    /\ pc = "run"
    /\ batch[b].status = "running"
    /\ \E outs \in [1..Len(BatchIds(b)) -> ExampleOutcomes] :
         batch' = [batch EXCEPT
            ![b].status = "returned",
            ![b].result = QueueOrZeros(run_examples(outs), Len(BatchIds(b)))]
    /\ UNCHANGED <<env_ids, batch_size, threads, rewards, reward_ids, pc, ret>>
    /\ SchedFrame

\* run_with_timeout: the timed join returns with the worker still alive and
\* the budget exceeded; the process tree is killed and TimeoutError raised.
\* @retry calls run_examples_in_subprocess again while tries are left and
\* lets the TimeoutError through after the last one.
BatchTimeout(b) ==
    /\ pc = "run"
    /\ batch[b].status = "running"
    /\ IF batch[b].tries > 1
       THEN batch' = [batch EXCEPT ![b].tries = @ - 1]
       ELSE batch' = [batch EXCEPT ![b].tries = 0, ![b].status = "raised"]
    /\ UNCHANGED <<env_ids, batch_size, threads, rewards, reward_ids, pc, ret>>
    /\ SchedFrame

\* the caller's try: rewards.extend(r) on a result
ExtendRewards(b) ==
    /\ pc = "run"
    /\ batch[b].status = "returned"
    /\ rewards' = rewards \o batch[b].result
    /\ reward_ids' = reward_ids \o BatchIds(b)
    /\ batch' = [batch EXCEPT ![b].status = "extended"]
    /\ UNCHANGED <<env_ids, batch_size, threads, pc, ret>>
    /\ SchedFrame

\* the caller's except: the exception is printed and the loop goes on
DropBatch(b) ==
    /\ pc = "run"
    /\ batch[b].status = "raised"
    /\ batch' = [batch EXCEPT ![b].status = "dropped"]
    /\ UNCHANGED <<env_ids, batch_size, threads, rewards, reward_ids, pc, ret>>
    /\ SchedFrame

\* sum(rewards) / len(rewards), then the return of num_success and num_total
Return ==
    /\ pc = "run"
    /\ \A b \in Batches : Finished(b)
    /\ IF Len(rewards) = 0
       THEN /\ pc' = "ZeroDivisionError"
            /\ ret' = ret
       ELSE /\ pc' = "done"
            /\ ret' = [num_total |-> Len(rewards), num_success |-> SumSeq(rewards)]
    /\ UNCHANGED <<env_ids, batch_size, threads, batch, rewards, reward_ids>>
    /\ SchedFrame

SchedNext ==
    \/ \E b \in Batches : StartBatch(b)
    \/ \E b \in Batches : BatchReturns(b)
    \/ \E b \in Batches : BatchTimeout(b)
    \/ \E b \in Batches : ExtendRewards(b)
    \/ \E b \in Batches : DropBatch(b)
    \/ Return

\* the scheduler's variables while another part of the program is modelled
SchedIdle ==
    /\ env_ids = <<>>
    /\ batch_size = 1
    /\ threads = 1
    /\ batch = <<>>
    /\ rewards = <<>>
    /\ reward_ids = <<>>
    /\ pc = "idle"
    /\ ret = [num_total |-> -1, num_success |-> -1]

----------------------------------------------------------------------------
(* One batch in its worker process: run_examples_in_subprocess,            *)
(* run_with_timeout, run_examples, run_example                             *)

InteractionPoints == {"reset", "act", "step"}

WorkerInit ==
    /\ example_env_names \in {[i \in 1..n |-> i] : n \in 1..MaxBatchLen}
    /\ tries = Tries
    /\ process = "none"
    /\ trace = <<>>
    /\ output_queue = <<>>
    /\ sub_pc = "running"
    /\ result = <<>>
    /\ executed = [i \in 1..Len(example_env_names) |-> 0]

WorkerIdle ==
    /\ example_env_names = <<>>
    /\ tries = Tries
    /\ process = "none"
    /\ trace = <<>>
    /\ output_queue = <<>>
    /\ sub_pc = "idle"
    /\ result = <<>>
    /\ executed = <<>>

\* the rewards list of run_examples so far
TraceRewards == [i \in 1..Len(trace) |-> trace[i].r]

\* run_with_timeout: process.start() on a fresh output queue
ProcessStart ==
    /\ sub_pc = "running"
    /\ process = "none"
    /\ process' = "alive"
    /\ UNCHANGED <<example_env_names, tries, trace, output_queue, sub_pc, result>>
    /\ UNCHANGED executed
    /\ WorkerFrame

\* run_examples, one iteration: run_example for the next id of the batch;
\* an exception that leaves run_example leaves run_examples too and ends
\* the worker
RunExample ==
    /\ process = "alive"
    /\ output_queue = <<>>
    /\ Len(trace) < Len(example_env_names)
    /\ \E p \in Points, k \in Kinds, r \in {0, 1} :
         /\ k = "none" => (p = "step")
         /\ k # "none" => r = 0
         /\ k = "NameNotFound" => p = "env_make"
         /\ trace' = Append(trace, [p |-> p, k |-> k, r |-> run_example(p, k, r)])
         /\ process' = IF run_example(p, k, r) = -1 THEN "died" ELSE "alive"
    /\ executed' = [executed EXCEPT ![Len(trace) + 1] = @ + 1]
    /\ UNCHANGED <<example_env_names, tries, output_queue, sub_pc, result>>
    /\ WorkerFrame

\* run_examples, after the loop: output_queue.put(rewards)
PutRewards ==
    /\ process = "alive"
    /\ output_queue = <<>>
    /\ Len(trace) = Len(example_env_names)
    /\ output_queue' = <<TraceRewards>>
    /\ UNCHANGED <<example_env_names, tries, process, trace, sub_pc, result>>
    /\ UNCHANGED executed
    /\ WorkerFrame

\* the worker's function has returned and the process exits
ProcessExit ==
    /\ process = "alive"
    /\ output_queue # <<>>
    /\ process' = "exited"
    /\ UNCHANGED <<example_env_names, tries, trace, output_queue, sub_pc, result>>
    /\ UNCHANGED executed
    /\ WorkerFrame

\* run_with_timeout: process.join(timeout) returns with the worker alive and
\* the budget exceeded: the process tree is killed and TimeoutError raised.
\* @retry(TimeoutError, tries=3): another call while tries are left, else
\* the TimeoutError leaves run_examples_in_subprocess.
TimeoutKill ==
    /\ sub_pc = "running"
    /\ process = "alive"
    /\ IF tries > 1
       THEN /\ tries' = tries - 1
            /\ process' = "none"
            /\ trace' = <<>>
            /\ output_queue' = <<>>
            /\ sub_pc' = sub_pc
       ELSE /\ tries' = 0
            /\ process' = "killed"
            /\ sub_pc' = "TimeoutError"
            /\ UNCHANGED <<trace, output_queue>>
    /\ UNCHANGED <<example_env_names, result>>
    /\ UNCHANGED executed
    /\ WorkerFrame

\* run_with_timeout: process.join(timeout) returns within the budget, the
\* worker's function has returned, and process.is_alive() still says alive
\* (the case the comment of lines 68-71 tells of): is_timeout is False, the
\* process tree is killed and reaped, and no TimeoutError is raised
KillWithoutTimeout ==
    /\ sub_pc = "running"
    /\ process = "alive"
    /\ output_queue # <<>>
    /\ process' = "reaped"
    /\ UNCHANGED <<example_env_names, tries, trace, output_queue, sub_pc, result>>
    /\ UNCHANGED executed
    /\ WorkerFrame

\* run_with_timeout returns without a TimeoutError: the worker is not alive
\* any more; run_examples_in_subprocess returns the queue's content or zeros
JoinReturn ==
    /\ sub_pc = "running"
    /\ process \in {"exited", "died", "reaped"}
    /\ result' = QueueOrZeros(output_queue, Len(example_env_names))
    /\ sub_pc' = "returned"
    /\ UNCHANGED <<example_env_names, tries, process, trace, output_queue>>
    /\ UNCHANGED executed
    /\ WorkerFrame

WorkerNext ==
    \/ ProcessStart
    \/ RunExample
    \/ PutRewards
    \/ ProcessExit
    \/ TimeoutKill
    \/ KillWithoutTimeout
    \/ JoinReturn

----------------------------------------------------------------------------
(* run_with_timeout and get_process_tree *)

\* process.pid
WorkerPid == 1

Pids == 1..MaxProcs

KillIdle ==
    /\ procs = {}
    /\ ppid = [p \in Pids |-> 0]
    /\ n_spawned = 0
    /\ never_returns = FALSE
    /\ kill_pc = "idle"
    /\ is_timeout = FALSE
    /\ processes = {}

\* process.start() has run and the caller is in process.join(timeout)
KillInit ==
    /\ procs = {WorkerPid}
    /\ ppid = [p \in Pids |-> 0]
    /\ n_spawned = 1
    /\ never_returns \in BOOLEAN
    /\ kill_pc = "join"
    /\ is_timeout = FALSE
    /\ processes = {}

RECURSIVE Closure(_)
Closure(S) ==
    LET more == S \cup {c \in procs : ppid[c] \in S}
    IN  IF more = S THEN S ELSE Closure(more)

\* get_process_tree(pid): [parent_process] + children(recursive=True), or
\* [] on psutil.NoSuchProcess
get_process_tree(pid) ==
    IF pid \in procs THEN Closure({pid}) ELSE {}

\* a process ends: its children are re-parented to init
Reparent(p) == [c \in Pids |-> IF ppid[c] = p THEN 0 ELSE ppid[c]]

\* a running process of the tree (the worker, the browser, the replay
\* server, ...) starts a child process
Fork(p) ==
    /\ kill_pc \in {"join", "snapshot", "kill", "reap"}
    /\ p \in procs
    /\ n_spawned < MaxProcs
    /\ n_spawned' = n_spawned + 1
    /\ procs' = procs \cup {n_spawned + 1}
    /\ ppid' = [ppid EXCEPT ![n_spawned + 1] = p]
    /\ UNCHANGED <<never_returns, kill_pc, is_timeout, processes>>
    /\ KillFrame

\* a process other than the worker ends by itself
ChildExit(p) ==
    /\ kill_pc \in {"join", "snapshot", "kill", "reap"}
    /\ p \in procs
    /\ p # WorkerPid
    /\ procs' = procs \ {p}
    /\ ppid' = Reparent(p)
    /\ UNCHANGED <<n_spawned, never_returns, kill_pc, is_timeout, processes>>
    /\ KillFrame

\* the worker's function returns within the budget and the worker exits:
\* process.join(timeout) returns, process.is_alive() is false and
\* run_with_timeout returns
WorkerReturns ==
    /\ kill_pc = "join"
    /\ ~never_returns
    /\ WorkerPid \in procs
    /\ procs' = procs \ {WorkerPid}
    /\ ppid' = Reparent(WorkerPid)
    /\ kill_pc' = "returned"
    /\ UNCHANGED <<n_spawned, never_returns, is_timeout, processes>>
    /\ KillFrame

\* process.join(timeout) returns within the budget and process.is_alive()
\* says alive all the same (the case the comment of lines 68-71 tells of):
\* is_timeout = time.time() - start > timeout_seconds is False
JoinReturnsEarly ==
    /\ kill_pc = "join"
    /\ ~never_returns
    /\ WorkerPid \in procs
    /\ is_timeout' = FALSE
    /\ kill_pc' = "snapshot"
    /\ UNCHANGED <<procs, ppid, n_spawned, never_returns, processes>>
    /\ KillFrame

\* process.join(timeout) returns after timeout_seconds with the worker
\* alive: is_timeout = time.time() - start > timeout_seconds
JoinTimesOut ==
    /\ kill_pc = "join"
    /\ WorkerPid \in procs
    /\ is_timeout' = TRUE
    /\ kill_pc' = "snapshot"
    /\ UNCHANGED <<procs, ppid, n_spawned, never_returns, processes>>
    /\ KillFrame

\* processes = get_process_tree(process.pid)
TakeProcessTree ==
    /\ kill_pc = "snapshot"
    /\ processes' = get_process_tree(WorkerPid)
    /\ kill_pc' = "kill"
    /\ UNCHANGED <<procs, ppid, n_spawned, never_returns, is_timeout>>
    /\ KillFrame

\* for p in processes: print_process_info(p); os.kill(p.pid, SIGKILL), the
\* worker first; an error of the kill (the process is gone) is printed
KillNext(p) ==
    /\ kill_pc = "kill"
    /\ p \in processes
    /\ WorkerPid \in processes => p = WorkerPid
    /\ processes' = processes \ {p}
    /\ procs' = procs \ {p}
    /\ ppid' = IF p \in procs THEN Reparent(p) ELSE ppid
    /\ UNCHANGED <<n_spawned, never_returns, kill_pc, is_timeout>>
    /\ KillFrame

\* the loop is over: process.join()
KillLoopEnds ==
    /\ kill_pc = "kill"
    /\ processes = {}
    /\ kill_pc' = "reap"
    /\ UNCHANGED <<procs, ppid, n_spawned, never_returns, is_timeout, processes>>
    /\ KillFrame

\* process.join() returns once the worker is gone; TimeoutError is raised
\* if is_timeout
Reap ==
    /\ kill_pc = "reap"
    /\ WorkerPid \notin procs
    /\ kill_pc' = IF is_timeout THEN "TimeoutError" ELSE "returned"
    /\ UNCHANGED <<procs, ppid, n_spawned, never_returns, is_timeout, processes>>
    /\ KillFrame

KillSpecNext ==
    \/ \E p \in Pids : Fork(p)
    \/ \E p \in Pids : ChildExit(p)
    \/ WorkerReturns
    \/ JoinReturnsEarly
    \/ JoinTimesOut
    \/ TakeProcessTree
    \/ \E p \in Pids : KillNext(p)
    \/ KillLoopEnds
    \/ Reap

----------------------------------------------------------------------------
(* run_eval_with_wa_service, _create_all_wa_service_instances_multithreads *)
(* and _setup_and_run_all_eval_runs                                        *)

WaveIdle ==
    /\ n_configs = 0
    /\ max_ips = 0
    /\ start_idx = 0
    /\ stop_idx = 0
    /\ num_instances = 0
    /\ instance_ids = <<>>
    /\ public_ips = <<>>
    /\ callbacks = <<>>
    /\ run_i = 0
    /\ wave_pc = "idle"
    /\ n_created = 0
    /\ deferred = 0
    /\ ran = <<>>
    /\ exited = {}
    /\ release_calls = <<>>
    /\ n_waves = 0

\* configs = _divide_eval_config(config);
\* if max_ips is None or max_ips < 0: max_ips = len(configs)
WaveInit ==
    /\ n_configs \in 1..MaxConfigs
    /\ \E m \in {-1} \cup 0..MaxConfigs :
          max_ips = IF m < 0 THEN n_configs ELSE m
    /\ start_idx = 0
    /\ stop_idx = 0
    /\ num_instances = 0
    /\ instance_ids = <<>>
    /\ public_ips = <<>>
    /\ callbacks = <<>>
    /\ run_i = 0
    /\ wave_pc = "loop"
    /\ n_created = 0
    /\ deferred = 0
    /\ ran = <<>>
    /\ exited = {}
    /\ release_calls = <<>>
    /\ n_waves = 0

\* the id and the address of the k-th instance the service hands out
InstanceId(k) == <<"instance", k>>

PublicIp(k) == <<"ip", k>>

\* instance_release_callbacks =
\*   [lambda: wa_service.release_instance(instance_id)
\*    for instance_id in range(len(instance_ids))]
\* The lambdas read the comprehension's variable when they are called, after
\* the comprehension has run through range(len(instance_ids)): each passes
\* the integer len(instance_ids) - 1.
ReleaseCallbacks(ids) == [j \in 1..Len(ids) |-> <<"int", Len(ids) - 1>>]

\* stop_idx after the instances have been created: fewer instances than
\* RunUnits cut the wave to the first len(instance_ids) RunUnits
StopIdxKeepsRequested(start, stop, obtained) == stop
StopIdx(start, stop, obtained) ==
    IF obtained < stop - start THEN start + obtained ELSE stop

\* if len(instance_ids) == 0: raise ValueError
NoInstanceNever(obtained) == FALSE
NoInstance(obtained) == obtained = 0

\* One pass of `while start_idx < len(configs)` up to the call of
\* _setup_and_run_all_eval_runs: num_instances = len(config_batch) instances
\* are requested, each create_instance returns an (id, address) pair or
\* raises, and obtained of them return.
CreateInstances ==
    /\ wave_pc = "loop"
    /\ start_idx < n_configs
    /\ LET stop == Min(start_idx + max_ips, n_configs)
           requested == stop - start_idx
       IN  \E obtained \in 0..requested :
             LET ids == [j \in 1..obtained |-> InstanceId(n_created + j)]
             IN  /\ num_instances' = requested
                 /\ n_created' = n_created + obtained
                 /\ instance_ids' = ids
                 /\ public_ips' = [j \in 1..obtained |-> PublicIp(n_created + j)]
                 /\ callbacks' = ReleaseCallbacks(ids)
                 /\ stop_idx' = StopIdx(start_idx, stop, obtained)
                 /\ deferred' = IF NoInstance(obtained) THEN 0
                              ELSE requested - obtained
                 /\ wave_pc' = IF NoInstance(obtained) THEN "ValueError"
                                ELSE "setup"
    /\ run_i' = 0
    /\ n_waves' = n_waves + 1
    /\ UNCHANGED <<n_configs, max_ips, start_idx, ran, exited, release_calls>>
    /\ WaveFrame

\* _setup_and_run_all_eval_runs: the two asserts on the lengths of
\* instance_ips and instance_release_callbacks
EnterRuns ==
    /\ wave_pc = "setup"
    /\ wave_pc' = IF /\ Len(public_ips) = stop_idx - start_idx
                     /\ Len(callbacks) = stop_idx - start_idx
                  THEN "run" ELSE "AssertionError"
    /\ exited' = IF wave_pc' = "run" THEN exited
                 ELSE exited \cup {instance_ids[j] : j \in DOMAIN instance_ids}
    /\ UNCHANGED <<n_configs, max_ips, start_idx, stop_idx, num_instances,
                   instance_ids, public_ips, callbacks, run_i, n_created,
                   deferred, ran, release_calls>>
    /\ UNCHANGED n_waves
    /\ WaveFrame

\* _setup_and_run_all_eval_runs, one iteration: run_single_benchmark runs
\* config i on instance_ips[i] and calls its instance_release_callback as
\* its last step
RunConfig ==
    /\ wave_pc = "run"
    /\ run_i < stop_idx - start_idx
    /\ ran' = Append(ran, [config |-> start_idx + run_i, ip |-> public_ips[run_i + 1]])
    /\ release_calls' = Append(release_calls, callbacks[run_i + 1])
    /\ exited' = exited \cup {instance_ids[run_i + 1]}
    /\ run_i' = run_i + 1
    /\ UNCHANGED <<n_configs, max_ips, start_idx, stop_idx, num_instances,
                   instance_ids, public_ips, callbacks, wave_pc, n_created, deferred>>
    /\ UNCHANGED n_waves
    /\ WaveFrame

\* _setup_and_run_all_eval_runs, one iteration: run_single_benchmark raises
\* before it reaches the release; the exception is re-raised and leaves
\* run_eval_with_wa_service
RunConfigRaises ==
    /\ wave_pc = "run"
    /\ run_i < stop_idx - start_idx
    /\ wave_pc' = "raised"
    /\ exited' = exited \cup {instance_ids[j] : j \in (run_i + 1)..Len(instance_ids)}
    /\ UNCHANGED <<n_configs, max_ips, start_idx, stop_idx, num_instances,
                   instance_ids, public_ips, callbacks, run_i, n_created,
                   deferred, ran, release_calls>>
    /\ UNCHANGED n_waves
    /\ WaveFrame

\* the wave is over: start_idx = stop_idx
NextWave ==
    /\ wave_pc = "run"
    /\ run_i = stop_idx - start_idx
    /\ start_idx' = stop_idx
    /\ wave_pc' = "loop"
    /\ UNCHANGED <<n_configs, max_ips, stop_idx, num_instances, instance_ids,
                   public_ips, callbacks, run_i, n_created, deferred, ran,
                   exited, release_calls>>
    /\ UNCHANGED n_waves
    /\ WaveFrame

\* the loop is over: the results are aggregated and returned
WavesDone ==
    /\ wave_pc = "loop"
    /\ start_idx >= n_configs
    /\ wave_pc' = "done"
    /\ UNCHANGED <<n_configs, max_ips, start_idx, stop_idx, num_instances,
                   instance_ids, public_ips, callbacks, run_i, n_created,
                   deferred, ran, exited, release_calls>>
    /\ UNCHANGED n_waves
    /\ WaveFrame

WaveNext ==
    \/ CreateInstances
    \/ EnterRuns
    \/ RunConfig
    \/ RunConfigRaises
    \/ NextWave
    \/ WavesDone

----------------------------------------------------------------------------
(* The configurations: EvalConfig, BenchmarkConfig, AgentConfig            *)

\* Optional values: None and a value that is set
None == <<>>

Some(v) == <<v>>

\* An environment id is a number: n > 0 is the n-th registered id of the
\* dataset written in full, "<env_prefix>.<task>", and -n is the same id
\* written without the prefix, "<task>".  The order of the numbers is the
\* string order of the full ids.
\* The gym registry holds MaxUniverse ids of a dataset of fixed tasks, and
\* the one template id of the open-ended dataset.
TemplateId == 1

Registry(dataset) ==
    IF dataset = "wa_action_crawl" THEN <<TemplateId>>
    ELSE [i \in 1..MaxUniverse |-> i]

\* ENV_CONFIGS: miniwob and wa_action_crawl have an env_prefix,
\* webarena-mini has a list of env_ids
HasEnvPrefix(dataset) == dataset \in {"miniwob", "wa_action_crawl"}

\* "openended" in ENV_CONFIGS[dataset]["env_prefix"]
IsOpenended(dataset) == dataset = "wa_action_crawl"

Max(a, b) == IF a > b THEN a ELSE b

InSeq(x, s) == \E i \in DOMAIN s : s[i] = x

\* the Python list s * n
Repeat(s, n) ==
    [i \in 1..(Len(s) * Max(n, 0)) |-> s[((i - 1) % Len(s)) + 1]]

\* env_ids.sort(reverse=True)
RECURSIVE InsertDesc(_, _)
InsertDesc(x, s) ==
    IF s = <<>> THEN <<x>>
    ELSE IF x >= Head(s) THEN <<x>> \o s
    ELSE <<Head(s)>> \o InsertDesc(x, Tail(s))

RECURSIVE SortDesc(_)
SortDesc(s) ==
    IF s = <<>> THEN <<>> ELSE InsertDesc(Head(s), SortDesc(Tail(s)))

\* the list left as it is: no sort
KeepOrder(ids) == ids

shuffle_env_ids(ids) == SortDesc(ids)

\* f"{env_prefix}.{env_id}" if not env_id.startswith(env_prefix) else env_id
WithPrefix(x) == IF x < 0 THEN -x ELSE x

\* select_env_ids: the include list with the prefix put in front of the ids
\* that lack it; ValueError if one of them is not in full_env_ids
select_env_ids(ids, env_prefix, full_env_ids) ==
    LET named == IF env_prefix THEN [i \in DOMAIN ids |-> WithPrefix(ids[i])]
                 ELSE ids
    IN  IF \E i \in DOMAIN named : ~InSeq(named[i], full_env_ids)
        THEN [raised |-> "ValueError", value |-> <<>>]
        ELSE [raised |-> "", value |-> named]

\* the ids of the dataset: those of the registry, or for an open-ended
\* dataset the template id max_examples times
AllIds(benchmark) ==
    IF IsOpenended(benchmark.dataset)
    THEN Repeat(Registry(benchmark.dataset), benchmark.max_examples)
    ELSE Registry(benchmark.dataset)

\* the construction arguments of an open-ended dataset: per requested
\* example the index i % len(url_pool) of its url; task_kwargs None is <<>>
TaskKwargs(benchmark) ==
    IF IsOpenended(benchmark.dataset)
    THEN [i \in 1..benchmark.max_examples |-> ((i - 1) % benchmark.url_pool) + 1]
    ELSE <<>>

\* if benchmark.example_ids: env_ids = select_env_ids(...)
Included(benchmark, selected, all) ==
    IF benchmark.example_ids # <<>> THEN selected.value ELSE all

\* if benchmark.example_ids_to_skip: the ids not in it
Skipped(ids, skip) ==
    IF skip # <<>> THEN SelectSeq(ids, LAMBDA x : ~InSeq(x, skip)) ELSE ids

\* if benchmark.max_examples > 0: the first max_examples ids, sorted again
Capped(ids, max_examples) ==
    IF max_examples > 0
    THEN shuffle_env_ids(SubSeq(ids, 1, Min(max_examples, Len(ids))))
    ELSE ids

ResolveSelected(benchmark, selected, all) ==
    IF IsOpenended(benchmark.dataset) /\ benchmark.url_pool = 0
    THEN [raised |-> "ValueError", env_ids |-> <<>>, task_kwargs |-> <<>>]
    ELSE IF benchmark.example_ids # <<>> /\ selected.raised # ""
    THEN [raised |-> selected.raised, env_ids |-> <<>>, task_kwargs |-> <<>>]
    ELSE [raised |-> "",
          env_ids |-> Capped(shuffle_env_ids(
                                 Skipped(Included(benchmark, selected, all),
                                         benchmark.example_ids_to_skip)),
                             benchmark.max_examples),
          task_kwargs |-> TaskKwargs(benchmark)]

ResolveFrom(benchmark, all) ==
    ResolveSelected(benchmark,
                    select_env_ids(benchmark.example_ids,
                                   HasEnvPrefix(benchmark.dataset), all),
                    all)

\* get_env_ids_and_task_kwargs: the ids a benchmark resolves to and the
\* construction arguments, or the exception raised
get_env_ids_and_task_kwargs(benchmark) == ResolveFrom(benchmark, AllIds(benchmark))

\* f"{benchmark_name}_{benchmark_split_separator}_{start_idx}_{stop_idx}";
\* a benchmark id is the tuple of its parts
SplitId(benchmark_name, start, stop) == benchmark_name \o <<"SPLIT", start, stop>>

\* the j-th new_benchmark of the loop of _benchmark_batch_split
Shard(benchmark_name, benchmark, full_env_ids, j) ==
    LET start == (j - 1) * benchmark.tasks_per_batch
        stop == Min(start + benchmark.tasks_per_batch, Len(full_env_ids))
    IN  [id |-> SplitId(benchmark_name, start, stop),
         config |-> [benchmark EXCEPT
             !.name = Some(benchmark_name),
             !.tasks_per_batch = -1,
             !.example_ids = shuffle_env_ids(SubSeq(full_env_ids, start + 1, stop))]]

SplitResolved(benchmark_name, benchmark, resolved) ==
    IF resolved.raised # ""
    THEN [raised |-> resolved.raised, value |-> <<>>]
    ELSE IF /\ resolved.task_kwargs # <<>>
            /\ benchmark.tasks_per_batch > Len(resolved.env_ids)
    THEN [raised |-> "ValueError", value |-> <<>>]
    ELSE IF benchmark.tasks_per_batch <= 0
    THEN [raised |-> "",
          value |-> << [id |-> benchmark_name,
                        config |-> [benchmark EXCEPT
                            !.example_ids = resolved.env_ids,
                            !.name = IF benchmark.name = None
                                     THEN Some(benchmark_name)
                                     ELSE benchmark.name]] >>]
    ELSE [raised |-> "",
          value |-> [j \in 1..((Len(resolved.env_ids) + benchmark.tasks_per_batch - 1)
                                  \div benchmark.tasks_per_batch) |->
                        Shard(benchmark_name, benchmark, resolved.env_ids, j)]]

\* _benchmark_batch_split: the dict of the benchmarks one benchmark is split
\* into, as the sequence of its items, or the exception raised
_benchmark_batch_split(benchmark_name, benchmark) ==
    SplitResolved(benchmark_name, benchmark, get_env_ids_and_task_kwargs(benchmark))

\* A dict is the sequence of its items [id, config], in insertion order.
\* d[k] = v
DictSet(d, k, v) ==
    IF \E i \in DOMAIN d : d[i].id = k
    THEN [i \in DOMAIN d |-> IF d[i].id = k THEN [id |-> k, config |-> v] ELSE d[i]]
    ELSE Append(d, [id |-> k, config |-> v])

\* d.update(items)
RECURSIVE DictUpdate(_, _)
DictUpdate(d, items) ==
    IF items = <<>> THEN d
    ELSE DictUpdate(DictSet(d, Head(items).id, Head(items).config), Tail(items))

RECURSIVE Flatten(_)
Flatten(ss) == IF ss = <<>> THEN <<>> ELSE Head(ss) \o Flatten(Tail(ss))

\* the exception the first raising element of a sequence of results raised
FirstRaised(rs) ==
    IF \E i \in DOMAIN rs : rs[i].raised # ""
    THEN rs[CHOOSE i \in DOMAIN rs :
                /\ rs[i].raised # ""
                /\ \A j \in 1..(i - 1) : rs[j].raised = ""].raised
    ELSE ""

\* lines 504-517 with the checks left out: no agent is ever rejected
AgentRaisedNever(agent) == ""

\* lines 504-517: how the model of each agent is referenced
AgentRaised(agent) ==
    IF agent.model THEN "NotImplementedError"
    ELSE IF agent.model_config_name # None /\ agent.model_config_names # None
    THEN "ValueError"
    ELSE ""

Consolidate(agent) ==
    IF ~agent.model /\ agent.model_config_name # None
    THEN [agent EXCEPT !.model_config_names = Some(<<agent.model_config_name[1]>>),
                       !.model_config_name = None]
    ELSE agent

\* lines 529-535: the configurations of one benchmark and one agent, one
\* per model name
Runs(config, benchmark, agent) ==
    [m \in DOMAIN agent.config.model_config_names[1] |->
        [config EXCEPT
            !.benchmarks = <<benchmark>>,
            !.agents = << [id |-> agent.id,
                           config |-> [agent.config EXCEPT
                               !.model = FALSE,
                               !.model_config_name =
                                   Some(agent.config.model_config_names[1][m]),
                               !.model_config_names = None]] >>]]

\* lines 521-536: iterating model_config_names of an agent that has none
\* raises TypeError
CrossProduct(config, all_benchmarks, all_agents) ==
    IF /\ all_benchmarks # <<>>
       /\ \E a \in DOMAIN all_agents : all_agents[a].config.model_config_names = None
    THEN [raised |-> "TypeError", value |-> <<>>]
    ELSE [raised |-> "",
          value |-> Flatten([b \in DOMAIN all_benchmarks |->
                        Flatten([a \in DOMAIN all_agents |->
                            Runs(config, all_benchmarks[b], all_agents[a])])])]

DivideSplits(config, splits, checks) ==
    IF FirstRaised(splits) # ""
    THEN [raised |-> FirstRaised(splits), value |-> <<>>]
    ELSE IF FirstRaised(checks) # ""
    THEN [raised |-> FirstRaised(checks), value |-> <<>>]
    ELSE CrossProduct(config,
             DictUpdate(<<>>, Flatten([i \in DOMAIN splits |-> splits[i].value])),
             [i \in DOMAIN config.agents |->
                 [id |-> config.agents[i].id,
                  config |-> Consolidate(config.agents[i].config)]])

\* _divide_eval_config: one configuration per benchmark (shard), agent and
\* model name, or the exception raised
_divide_eval_config(config) ==
    DivideSplits(config,
        [i \in DOMAIN config.benchmarks |->
            _benchmark_batch_split(config.benchmarks[i].id, config.benchmarks[i].config)],
        [i \in DOMAIN config.agents |->
            [raised |-> AgentRaised(config.agents[i].config)]])

\* _validate_and_initialize_eval_config
_validate_and_initialize_eval_config(config) ==
    IF config.benchmarks = <<>> \/ config.agents = <<>>
    THEN [raised |-> "ValueError", value |-> config]
    ELSE [raised |-> "",
          value |-> IF config.run_id = None
                    THEN [config EXCEPT !.run_id = Some("unique_run_id")]
                    ELSE config]

----------------------------------------------------------------------------
(* The configurations the model divides and runs *)

\* sequences of length at most n over S
SeqsUpTo(S, n) == UNION {[1..k -> S] : k \in 0..n}

\* the ways an id is written in an include list: in full, without the
\* prefix, and one id that is not registered
IdForms == 1..(MaxUniverse + 1) \cup {-1}

\* an exclude list: a set of registered ids, in descending order
SkipLists == {SortDesc(s) : s \in {t \in SeqsUpTo(1..MaxUniverse, MaxUniverse) :
                 \A i, j \in DOMAIN t : i < j => t[i] < t[j]}}

\* the benchmarks of the datasets of fixed tasks
FixedBenchmarks ==
    [name : {None},
     dataset : {"miniwob", "webarena-mini"},
     url_pool : {0},
     max_examples : 0..MaxExamples,
     tasks_per_batch : {-1} \cup 1..MaxShard,
     example_ids : SeqsUpTo(IdForms, MaxInclude),
     example_ids_to_skip : SkipLists]

\* the benchmarks of the open-ended dataset; url_pool 0 is None, n > 0 a
\* pool of n urls
OpenendedBenchmarks ==
    [name : {None},
     dataset : {"wa_action_crawl"},
     url_pool : 0..MaxPool,
     max_examples : 0..MaxExamples,
     tasks_per_batch : {-1} \cup 1..MaxShard,
     example_ids : SeqsUpTo({TemplateId}, 1),
     example_ids_to_skip : {<<>>}]

\* the benchmarks of a dataset of fixed tasks with no include list, no
\* exclude list and no cap
PlainBenchmarks ==
    [name : {None},
     dataset : {"miniwob"},
     url_pool : {0},
     max_examples : {0},
     tasks_per_batch : {-1} \cup 1..MaxShard,
     example_ids : {<<>>},
     example_ids_to_skip : {<<>>}]

\* the model names: the lists of at most MaxModels names, with "m1" first
ModelNames == {"m1", "m2"}

NameLists == {s \in SeqsUpTo(ModelNames, MaxModels) : s # <<>> => s[1] = "m1"}

Agents ==
    [name : {"unified_v2"},
     model : BOOLEAN,
     model_config_name : {None, Some("m1")},
     model_config_names : {None} \cup {Some(s) : s \in NameLists}]

\* the agents that name their models as _divide_eval_config wants them
PlainAgents ==
    {a \in Agents : /\ ~a.model
                    /\ \/ a.model_config_name # None /\ a.model_config_names = None
                       \/ a.model_config_name = None
                          /\ a.model_config_names \in {Some(<<"m1">>), Some(<<"m1", "m2">>)}}

Item(id, config) == [id |-> id, config |-> config]

EvalConfigOf(benchmarks, agents) ==
    [run_id |-> None, benchmarks |-> benchmarks, agents |-> agents,
     model_configs |-> ModelNames]

\* full_config is a benchmark of fixed tasks, with any include list,
\* exclude list, cap and shard size, with a plain agent
ListedConfigGiven ==
    \E b \in FixedBenchmarks, a \in PlainAgents :
        full_config = EvalConfigOf(<<Item(<<"b1">>, b)>>, <<Item("a1", a)>>)

\* full_config is an open-ended benchmark with a plain agent
OpenendedConfigGiven ==
    \E b \in OpenendedBenchmarks, a \in PlainAgents :
        full_config = EvalConfigOf(<<Item(<<"b1">>, b)>>, <<Item("a1", a)>>)

\* full_config is any agent, or none, with a plain benchmark, or a plain
\* agent with no benchmark
AgentConfigGiven ==
    \/ \E b \in PlainBenchmarks, a \in Agents :
          full_config = EvalConfigOf(<<Item(<<"b1">>, b)>>, <<Item("a1", a)>>)
    \/ \E b \in PlainBenchmarks :
          full_config = EvalConfigOf(<<Item(<<"b1">>, b)>>, <<>>)
    \/ \E a \in PlainAgents :
          full_config = EvalConfigOf(<<>>, <<Item("a1", a)>>)

\* full_config is two plain agents with a plain benchmark, or two plain
\* benchmarks with a plain agent
PairConfigGiven ==
    \/ \E b \in PlainBenchmarks, a1 \in PlainAgents, a2 \in PlainAgents :
          full_config = EvalConfigOf(<<Item(<<"b1">>, b)>>,
                                     <<Item("a1", a1), Item("a2", a2)>>)
    \/ \E b1 \in PlainBenchmarks, b2 \in PlainBenchmarks, a \in PlainAgents :
          full_config = EvalConfigOf(<<Item(<<"b1">>, b1), Item(<<"b2">>, b2)>>,
                                     <<Item("a1", a)>>)

\* full_config is one of the configurations of the model
ConfigGiven ==
    \/ ListedConfigGiven
    \/ OpenendedConfigGiven
    \/ AgentConfigGiven
    \/ PairConfigGiven

----------------------------------------------------------------------------
(* run_eval: _validate_and_initialize_eval_config, _divide_eval_config,    *)
(* _setup_and_run_all_eval_runs, aggregate_results_and_report_metrics_to_wandb *)

DivIdle ==
    /\ full_config = EvalConfigOf(<<>>, <<>>)
    /\ div_pc = "idle"
    /\ divided_configs = <<>>
    /\ redivided = <<>>
    /\ trial = 0
    /\ scheduled = <<>>
    /\ results_rows = <<>>
    /\ aggregated = {}
    /\ wa_service = FALSE
    /\ n_requested = 0
    /\ output_dir = FALSE

\* a call of _divide_eval_config(full_config)
DivideInit ==
    /\ ConfigGiven
    /\ div_pc = "divide"
    /\ divided_configs = <<>>
    /\ redivided = <<>>
    /\ trial = 0
    /\ scheduled = <<>>
    /\ results_rows = <<>>
    /\ aggregated = {}
    /\ wa_service = FALSE
    /\ n_requested = 0
    /\ output_dir = FALSE

\* a call of run_eval(full_config)
RunEvalInit ==
    /\ ConfigGiven
    /\ div_pc = "validate"
    /\ divided_configs = <<>>
    /\ redivided = <<>>
    /\ trial = 0
    /\ scheduled = <<>>
    /\ results_rows = <<>>
    /\ aggregated = {}
    /\ wa_service \in BOOLEAN
    /\ n_requested = 0
    /\ output_dir \in BOOLEAN

\* a call of run_eval(full_config) for a configuration of one benchmark
\* without include and exclude lists and at most one agent
RunEvalAgentInit ==
    /\ OpenendedConfigGiven \/ AgentConfigGiven
    /\ div_pc = "validate"
    /\ divided_configs = <<>>
    /\ redivided = <<>>
    /\ trial = 0
    /\ scheduled = <<>>
    /\ results_rows = <<>>
    /\ aggregated = {}
    /\ wa_service \in BOOLEAN
    /\ n_requested = 0
    /\ output_dir \in BOOLEAN

\* _validate_and_initialize_eval_config(config)
Validate ==
    /\ div_pc = "validate"
    /\ \E r \in {_validate_and_initialize_eval_config(full_config)} :
          /\ full_config' = r.value
          /\ div_pc' = IF r.raised # "" THEN r.raised ELSE "divide"
    /\ UNCHANGED <<divided_configs, redivided, trial, scheduled, results_rows,
                   aggregated>>
    /\ UNCHANGED <<wa_service, n_requested, output_dir>>
    /\ DivFrame

\* configs = _divide_eval_config(config)
Divide ==
    /\ div_pc = "divide"
    /\ \E r \in {_divide_eval_config(full_config)} :
          /\ divided_configs' = r.value
          /\ div_pc' = IF r.raised # "" THEN r.raised ELSE "divided"
    /\ UNCHANGED <<full_config, redivided, trial, scheduled, results_rows,
                   aggregated>>
    /\ UNCHANGED <<wa_service, n_requested, output_dir>>
    /\ DivFrame

\* _divide_eval_config(u) for the next divided configuration u
Redivide ==
    /\ div_pc = "divided"
    /\ Len(redivided) < Len(divided_configs)
    /\ redivided' = Append(redivided,
                           _divide_eval_config(divided_configs[Len(redivided) + 1]))
    /\ UNCHANGED <<full_config, div_pc, divided_configs, trial, scheduled,
                   results_rows, aggregated>>
    /\ UNCHANGED <<wa_service, n_requested, output_dir>>
    /\ DivFrame

\* run_single_benchmark, lines 221-227 and 367: what the resolution of the
\* ids makes it raise
ResolveRaised(resolved) ==
    IF resolved.raised # "" THEN resolved.raised
    ELSE IF /\ resolved.task_kwargs # <<>>
            /\ Len(resolved.env_ids) # Len(resolved.task_kwargs)
    THEN "AssertionError"
    ELSE IF resolved.env_ids = <<>> THEN "ZeroDivisionError"
    ELSE ""

\* what a trial raises: the checks of lines 621-634, then
\* run_single_benchmark
TrialRaised(config) ==
    IF Len(config.benchmarks) # 1 \/ Len(config.agents) # 1 THEN "ValueError"
    ELSE IF config.agents[1].config.model_config_name = None THEN "ValueError"
    ELSE IF config.agents[1].config.model_config_name[1] \notin config.model_configs
    THEN "ValueError"
    ELSE ResolveRaised(get_env_ids_and_task_kwargs(config.benchmarks[1].config))

\* the ids run_single_benchmark schedules for a configuration: none if it
\* raises before
Scheduled(config) ==
    IF TrialRaised(config) \in {"", "ZeroDivisionError"}
    THEN get_env_ids_and_task_kwargs(config.benchmarks[1].config).env_ids
    ELSE <<>>

\* the row of a trial; visualizer_url is the url of the output directory
\* of lines 194-209, or None when no output directory is configured
Row(config, ids, num_success) ==
    [benchmark |-> config.benchmarks[1].config.name,
     benchmark_id |-> config.benchmarks[1].id,
     agent |-> config.agents[1].id,
     model |-> config.agents[1].config.model_config_name[1],
     num_success |-> num_success,
     num_total |-> Len(ids),
     visualizer_url |-> IF output_dir
                        THEN Some(<<config.run_id, config.benchmarks[1].config.name,
                                    config.agents[1].id,
                                    config.agents[1].config.model_config_name[1]>>)
                        ELSE None]

\* _setup_and_run_all_eval_runs, one iteration that appends its row: the
\* agent's model is looked up, run_single_benchmark resolves the ids of the
\* benchmark and returns num_success and num_total over their rewards
RunTrial ==
    /\ div_pc = "divided"
    /\ trial < Len(divided_configs)
    /\ wa_service => n_requested > trial
    /\ TrialRaised(divided_configs[trial + 1]) = ""
    /\ \E ids \in {Scheduled(divided_configs[trial + 1])} :
          /\ \E num_success \in {0, Len(ids)} :
                results_rows' = Append(results_rows,
                                       Row(divided_configs[trial + 1], ids, num_success))
          /\ scheduled' = Append(scheduled, ids)
    /\ divided_configs' =
          [divided_configs EXCEPT ![trial + 1].agents[1].config.model = TRUE]
    /\ trial' = trial + 1
    /\ UNCHANGED <<full_config, div_pc, redivided, aggregated>>
    /\ UNCHANGED <<wa_service, n_requested, output_dir>>
    /\ DivFrame

\* _setup_and_run_all_eval_runs, one iteration that raises: the exception
\* is printed and raised again, and leaves run_eval
RunTrialRaises ==
    /\ div_pc = "divided"
    /\ trial < Len(divided_configs)
    /\ wa_service => n_requested > trial
    /\ \E raised \in {TrialRaised(divided_configs[trial + 1])} :
          /\ raised # ""
          /\ div_pc' = raised
    /\ scheduled' = Append(scheduled, Scheduled(divided_configs[trial + 1]))
    /\ UNCHANGED <<full_config, divided_configs, redivided, trial, results_rows,
                   aggregated>>
    /\ UNCHANGED <<wa_service, n_requested, output_dir>>
    /\ DivFrame

\* results.duplicated(subset=["benchmark", "agent", "model", "benchmark_id"])
RowIdentity(row) == <<row.benchmark, row.agent, row.model, row.benchmark_id>>

\* the key of results.groupby(["benchmark", "agent", "model", "visualizer_url"])
GroupKey(row) == <<row.benchmark, row.agent, row.model, row.visualizer_url>>

\* aggregate_results_and_report_metrics_to_wandb: the duplicate check, then
\* one row per group with the sums of num_success and num_total; a frame
\* of no rows has no column to group by, and groupby (dropna=True) leaves
\* out the rows whose key has a None
Aggregate ==
    /\ div_pc = "divided"
    /\ trial = Len(divided_configs)
    /\ LET duplicates == \E i, j \in DOMAIN results_rows :
                            i # j /\ RowIdentity(results_rows[i]) = RowIdentity(results_rows[j])
           Of(k, field) == SumSeq([i \in DOMAIN results_rows |->
                              IF GroupKey(results_rows[i]) = k
                              THEN results_rows[i][field] ELSE 0])
       IN  /\ div_pc' = IF results_rows = <<>> THEN "KeyError"
                        ELSE IF duplicates THEN "ValueError"
                        ELSE "done"
           /\ aggregated' =
                 IF results_rows = <<>> \/ duplicates THEN {}
                 ELSE {[benchmark |-> k[1], agent |-> k[2], model |-> k[3],
                        visualizer_url |-> k[4],
                        num_success |-> Of(k, "num_success"),
                        num_total |-> Of(k, "num_total")] :
                          k \in {GroupKey(results_rows[i]) :
                                   i \in {j \in DOMAIN results_rows :
                                             results_rows[j].visualizer_url # None}}}
    /\ UNCHANGED <<full_config, divided_configs, redivided, trial, scheduled,
                   results_rows>>
    /\ UNCHANGED <<wa_service, n_requested, output_dir>>
    /\ DivFrame

\* run_eval_with_wa_service, lines 786-804, with max_ips = len(configs):
\* the instances of the one wave are requested, one per configuration,
\* before _setup_and_run_all_eval_runs is entered
RequestInstances ==
    /\ div_pc = "divided"
    /\ wa_service
    /\ n_requested = 0
    /\ Len(divided_configs) > 0
    /\ n_requested' = Len(divided_configs)
    /\ UNCHANGED <<full_config, div_pc, divided_configs, redivided, trial,
                   scheduled, results_rows, aggregated, wa_service, output_dir>>
    /\ DivFrame

DivideNext ==
    \/ Divide
    \/ Redivide

RunEvalNext ==
    \/ Validate
    \/ Divide
    \/ RequestInstances
    \/ RunTrial
    \/ RunTrialRaises
    \/ Aggregate

----------------------------------------------------------------------------
(* run_example, step by step: the server it starts, the interaction loop  *)
(* with its step budget and its deadline, and the way it leaves           *)

\* the largest max_steps configured, and the most steps the environment is
\* followed for
MaxSteps == 2
MaxEnvSteps == 4

\* the exceptions a call made by run_example can end with ("none": it returns)
Raisable == {"none", "Exception", "RuntimeError"}

ExIdle ==
    /\ max_steps = 0
    /\ n_steps = 0
    /\ steps_taken = 0
    /\ reward = 0
    /\ late = FALSE
    /\ server_handler = FALSE
    /\ cleanups = 0
    /\ ex_pc = "idle"
    /\ ended = ""

\* BenchmarkConfig.max_steps is an int, 20 by default, that nothing validates
ExInit ==
    /\ max_steps \in 0..MaxSteps
    /\ n_steps = 0
    /\ steps_taken = 0
    /\ reward = 0
    /\ late = FALSE
    /\ server_handler = FALSE
    /\ cleanups = 0
    /\ ex_pc = "agent"
    /\ ended = ""

\* the exception leaves run_example
ExRaise(how) ==
    /\ ex_pc' = "raised"
    /\ ended' = how

\* agent_builder(...), before any try block
BuildAgent ==
    /\ ex_pc = "agent"
    /\ \E k \in Raisable :
          IF k = "none"
          THEN ex_pc' = "make" /\ UNCHANGED ended
          ELSE ExRaise("agent")
    /\ UNCHANGED <<max_steps, n_steps, steps_taken, reward, late,
                   server_handler, cleanups>>
    /\ ExFrame

\* the first try block: a subtaskbench id starts its server, then
\* env_utils.make; NameNotFound returns 0 at once, any other exception
\* is not caught here
MakeEnv ==
    /\ ex_pc = "make"
    /\ \E subtaskbench \in BOOLEAN, k \in Raisable \cup {"NameNotFound"} :
          /\ server_handler' = subtaskbench
          /\ CASE k = "none" ->
                    ex_pc' = "reset" /\ UNCHANGED <<reward, ended>>
               [] k = "NameNotFound" ->
                    ex_pc' = "returned" /\ reward' = 0 /\ ended' = "not_found"
               [] OTHER ->
                    ExRaise("make") /\ UNCHANGED reward
    /\ UNCHANGED <<max_steps, n_steps, steps_taken, late, cleanups>>
    /\ ExFrame

\* except Exception as ex: reward = 0, and a RuntimeError is raised again
InteractionRaised(k) ==
    /\ reward' = 0
    /\ IF k = "RuntimeError"
       THEN ExRaise("fatal")
       ELSE ex_pc' = "record" /\ ended' = "exception"

\* env.reset(), agent.reset(obs), done = False, n_steps = 0
Reset ==
    /\ ex_pc = "reset"
    /\ \E k \in Raisable :
          IF k = "none"
          THEN ex_pc' = "loop" /\ n_steps' = 0 /\ UNCHANGED <<reward, ended>>
          ELSE InteractionRaised(k) /\ UNCHANGED n_steps
    /\ UNCHANGED <<max_steps, steps_taken, late, server_handler, cleanups>>
    /\ ExFrame

\* one turn of "while not done": agent.act, env.step, then the three exits
\* in the order of the code: done or the step budget, the deadline, and
\* otherwise n_steps += 1
Step ==
    /\ ex_pc = "loop"
    /\ steps_taken < MaxEnvSteps
    /\ \E k \in Raisable, r \in {0, 1}, done \in BOOLEAN :
          IF k # "none"
          THEN InteractionRaised(k) /\ UNCHANGED <<n_steps, steps_taken>>
          ELSE /\ steps_taken' = steps_taken + 1
               /\ IF done \/ n_steps = max_steps - 1
                  THEN /\ reward' = r
                       /\ ex_pc' = "record"
                       /\ ended' = IF done THEN "done" ELSE "budget"
                       /\ UNCHANGED n_steps
                  ELSE IF late
                       THEN /\ reward' = 0
                            /\ ex_pc' = "record"
                            /\ ended' = "deadline"
                            /\ UNCHANGED n_steps
                       ELSE /\ reward' = r
                            /\ n_steps' = n_steps + 1
                            /\ UNCHANGED <<ex_pc, ended>>
    /\ UNCHANGED <<max_steps, late, server_handler, cleanups>>
    /\ ExFrame

\* the clock: time.time() - start_time exceeds timeout from some moment on
DeadlinePasses ==
    /\ ex_pc \in {"make", "reset", "loop"}
    /\ ~late
    /\ late' = TRUE
    /\ UNCHANGED <<max_steps, n_steps, steps_taken, reward, server_handler,
                   cleanups, ex_pc, ended>>
    /\ ExFrame

\* if debug_output_dir: the trajectory and results.json are written
Record ==
    /\ ex_pc = "record"
    /\ \E k \in Raisable :
          IF k = "none"
          THEN ex_pc' = "close" /\ UNCHANGED ended
          ELSE ex_pc' = "raised" /\ UNCHANGED ended
    /\ UNCHANGED <<max_steps, n_steps, steps_taken, reward, late,
                   server_handler, cleanups>>
    /\ ExFrame

\* env.close()
Close ==
    /\ ex_pc = "close"
    /\ \E k \in Raisable :
          IF k = "none"
          THEN ex_pc' = "cleanup" /\ UNCHANGED ended
          ELSE ex_pc' = "raised" /\ UNCHANGED ended
    /\ UNCHANGED <<max_steps, n_steps, steps_taken, reward, late,
                   server_handler, cleanups>>
    /\ ExFrame

\* if server_handler: server_handler.cleanup(), whose exception is logged;
\* return reward
Cleanup ==
    /\ ex_pc = "cleanup"
    /\ cleanups' = IF server_handler THEN cleanups + 1 ELSE cleanups
    /\ ex_pc' = "returned"
    /\ UNCHANGED <<max_steps, n_steps, steps_taken, reward, late,
                   server_handler, ended>>
    /\ ExFrame

ExNext ==
    \/ BuildAgent
    \/ MakeEnv
    \/ Reset
    \/ Step
    \/ DeadlinePasses
    \/ Record
    \/ Close
    \/ Cleanup

----------------------------------------------------------------------------
(* _divide_eval_config as a builder of objects: which objects it copies,  *)
(* which it assigns by reference, and what a later mutation reaches       *)

MaxBenchmarks == 2
MaxAgents == 2
MaxMutations == 2

\* the parts of a configuration that are objects of their own
Parts == {"benchmark", "agent", "runner", "model_configs"}

\* An object is <<kind, i, k, a, m>>: the benchmark i, shard k, agent a and
\* model m it was made for, 0 where it was made for none.
\* the objects of the configuration given
InputBenchmark(i) == <<"full_config.benchmarks", i, 0, 0, 0>>
InputAgent(a) == <<"full_config.agents", 0, 0, a, 0>>
InputRunner == <<"full_config.runner", 0, 0, 0, 0>>
InputModelConfigs == <<"full_config.model_configs", 0, 0, 0, 0>>

InputObjects ==
    {InputBenchmark(i) : i \in 1..MaxBenchmarks}
        \cup {InputAgent(a) : a \in 1..MaxAgents}
        \cup {InputRunner, InputModelConfigs}

\* all_raw_benchmarks = deepcopy(full_config.benchmarks): one copy per benchmark
RawBenchmark(i) == <<"all_raw_benchmarks", i, 0, 0, 0>>

\* _benchmark_batch_split: the benchmark it was given when tasks_per_batch <= 0,
\* else new_benchmark = deepcopy(benchmark), once per shard
SplitBenchmark(i, k) ==
    IF k = 0 THEN RawBenchmark(i) ELSE <<"new_benchmark", i, k, 0, 0>>

\* all_agents = deepcopy(full_config.agents)
AllAgent(a) == <<"all_agents", 0, 0, a, 0>>

\* new_config = deepcopy(template_config): its runner and its model_configs
NewRunner(i, k, a, m) == <<"new_config.runner", i, k, a, m>>
NewModelConfigs(i, k, a, m) == <<"new_config.model_configs", i, k, a, m>>

\* new_config.agents[agent_name] = deepcopy(template_agent_config)
NewAgent(i, k, a, m) == <<"new_config.agents", i, k, a, m>>

\* lines 529-535, one turn of the innermost loop:
\* new_config.benchmarks[benchmark_id] = benchmark_config assigns the object
\* of all_benchmarks itself
NewConfig(i, k, a, m) ==
    [benchmark |-> SplitBenchmark(i, k),
     agent |-> NewAgent(i, k, a, m),
     runner |-> NewRunner(i, k, a, m),
     model_configs |-> NewModelConfigs(i, k, a, m)]

\* the shards of benchmark i in the order of all_benchmarks
ShardsOf(shards, i) ==
    IF shards[i] = 0 THEN <<0>> ELSE [k \in 1..shards[i] |-> k]

\* lines 520-535: for each benchmark, for each agent, for each model name
DividedObjects(shards, models) ==
    Flatten([i \in 1..Len(shards) |->
        Flatten([j \in 1..Len(ShardsOf(shards, i)) |->
            Flatten([a \in 1..Len(models) |->
                [m \in 1..models[a] |->
                    NewConfig(i, ShardsOf(shards, i)[j], a, m)]])])])

\* the objects the division assigns a field of: the benchmarks of
\* all_raw_benchmarks or their copies (lines 414-430), the agents of
\* all_agents (lines 513-517) and the new agent of each RunUnit (line 533)
WrittenObjects(shards, models) ==
    UNION {{SplitBenchmark(i, ShardsOf(shards, i)[j]) :
               j \in DOMAIN ShardsOf(shards, i)} : i \in 1..Len(shards)} \cup
    {AllAgent(a) : a \in 1..Len(models)} \cup
    {DividedObjects(shards, models)[u].agent :
        u \in DOMAIN DividedObjects(shards, models)}

ShareIdle ==
    /\ n_shards = <<>>
    /\ n_models = <<>>
    /\ units = <<>>
    /\ written = {}
    /\ dirty = {}
    /\ mutated = {}
    /\ share_pc = "idle"

ShareInit ==
    /\ n_shards \in UNION {[1..n -> 0..MaxShard] : n \in 1..MaxBenchmarks}
    /\ n_models \in UNION {[1..n -> 1..MaxModels] : n \in 1..MaxAgents}
    /\ units = <<>>
    /\ written = {}
    /\ dirty = {}
    /\ mutated = {}
    /\ share_pc = "divide"

\* divided_configs = _divide_eval_config(full_config)
DivideObjects ==
    /\ share_pc = "divide"
    /\ units' = DividedObjects(n_shards, n_models)
    /\ written' = WrittenObjects(n_shards, n_models)
    /\ share_pc' = "divided"
    /\ UNCHANGED <<n_shards, n_models, dirty, mutated>>
    /\ ShareFrame

\* a field of one part of one RunUnit is assigned: divided_configs[u].part.x = v
MutateUnit(u, part) ==
    /\ share_pc = "divided"
    /\ Cardinality(mutated) < MaxMutations
    /\ <<u, part>> \notin mutated
    /\ dirty' = dirty \cup {units[u][part]}
    /\ mutated' = mutated \cup {<<u, part>>}
    /\ UNCHANGED <<n_shards, n_models, units, written, share_pc>>
    /\ ShareFrame

ShareNext ==
    \/ DivideObjects
    \/ \E u \in DOMAIN units, part \in Parts : MutateUnit(u, part)

----------------------------------------------------------------------------
(* create_instance under @retry(ValueError, tries=10, delay=30, backoff=2): *)
(* request_instance, then get_instance until it reports the instance ready  *)

\* tries=10 of the decorator
CreateTries == 10

\* the most status queries of one id that answer "not ready yet"
MaxPolls == 2

\* the tasks sharing one limiter, its largest limit and window, the last second
MaxTasks == 2
MaxLimit == 2
MaxWindow == 2
MaxTime == 3

\* the rows of an input table
MaxRows == 3

\* What a call of the service ends with. "invalid_json": the body of the
\* response is not JSON, and response.json() raises a JSONDecodeError,
\* which is a ValueError; "error": it raises anything else (no connection).
RequestOutcomes == {"id", "no_id", "invalid_json", "error"}
StatusOutcomes == {"available", "pending", "invalid_json", "error"}

CiIdle ==
    /\ ci_tries = CreateTries
    /\ n_requests = 0
    /\ instance_id = None
    /\ n_polls = 0
    /\ poll_retries = 0
    /\ ready_pairs = {}
    /\ created = None
    /\ ci_pc = "idle"

CiInit ==
    /\ ci_tries = CreateTries
    /\ n_requests = 0
    /\ instance_id = None
    /\ n_polls = 0
    /\ poll_retries = 0
    /\ ready_pairs = {}
    /\ created = None
    /\ ci_pc = "request"

\* the decorator, on a ValueError that left the function: the function is
\* called again while tries are left, else the ValueError is raised
RetryValueError ==
    IF ci_tries > 1
    THEN ci_tries' = ci_tries - 1 /\ ci_pc' = "request"
    ELSE ci_tries' = 0 /\ ci_pc' = "ValueError"

\* instance_id, response_json = request_instance(...), and
\* `if not instance_id: raise ValueError`
RequestInstance ==
    /\ ci_pc = "request"
    /\ n_requests' = n_requests + 1
    /\ n_polls' = 0
    /\ \E outcome \in RequestOutcomes :
          CASE outcome = "id" ->
                  /\ instance_id' = Some(InstanceId(n_requests + 1))
                  /\ ci_pc' = "poll"
                  /\ UNCHANGED ci_tries
            [] outcome \in {"no_id", "invalid_json"} ->
                  /\ instance_id' = None
                  /\ RetryValueError
            [] OTHER ->
                  /\ instance_id' = None
                  /\ ci_pc' = "raised"
                  /\ UNCHANGED ci_tries
    /\ UNCHANGED <<poll_retries, ready_pairs, created>>
    /\ CiFrame

\* one turn of `while True`: ready, public_ip = get_instance(instance_id);
\* a ValueError raised here leaves the function through the same decorator
GetInstance ==
    /\ ci_pc = "poll"
    /\ \E outcome \in StatusOutcomes :
          CASE outcome = "available" ->
                  /\ ready_pairs' = ready_pairs \cup
                        {<<instance_id[1], PublicIp(n_requests)>>}
                  /\ created' = Some(<<instance_id[1], PublicIp(n_requests)>>)
                  /\ ci_pc' = "returned"
                  /\ UNCHANGED <<ci_tries, n_polls, poll_retries>>
            [] outcome = "pending" ->
                  /\ n_polls < MaxPolls
                  /\ n_polls' = n_polls + 1
                  /\ UNCHANGED <<ci_tries, poll_retries, ready_pairs, created, ci_pc>>
            [] outcome = "invalid_json" ->
                  /\ RetryValueError
                  /\ poll_retries' = IF ci_tries > 1 THEN poll_retries + 1
                                     ELSE poll_retries
                  /\ UNCHANGED <<n_polls, ready_pairs, created>>
            [] OTHER ->
                  /\ ci_pc' = "raised"
                  /\ UNCHANGED <<ci_tries, n_polls, poll_retries, ready_pairs, created>>
    /\ UNCHANGED <<n_requests, instance_id>>
    /\ CiFrame

CiNext ==
    \/ RequestInstance
    \/ GetInstance

----------------------------------------------------------------------------
(* One call of get_env_ids_and_task_kwargs(benchmark, shuffle_seed)        *)

\* the seeds: None, 0 and another int
Seeds == {None, Some(0), Some(1)}

NotResolved == [raised |-> "", env_ids |-> <<>>, task_kwargs |-> <<>>]

ResIdle ==
    /\ res_benchmark = None
    /\ shuffle_seed = None
    /\ res_result = NotResolved
    /\ res_pc = "idle"

ResInit ==
    /\ res_benchmark \in FixedBenchmarks \cup OpenendedBenchmarks
    /\ shuffle_seed \in Seeds
    /\ res_result = NotResolved
    /\ res_pc = "call"

\* env_ids, task_kwargs = get_env_ids_and_task_kwargs(benchmark, shuffle_seed):
\* shuffle_env_ids is given the seed and does not read it
Resolve ==
    /\ res_pc = "call"
    /\ res_result' = get_env_ids_and_task_kwargs(res_benchmark)
    /\ res_pc' = IF get_env_ids_and_task_kwargs(res_benchmark).raised # ""
                 THEN "raised" ELSE "returned"
    /\ UNCHANGED <<res_benchmark, shuffle_seed>>
    /\ ResFrame

ResNext == Resolve

----------------------------------------------------------------------------
(* One FrequencyLimiter actor shared by concurrent trajectory_collection   *)
(* tasks.  The actor runs one method call at a time, so wait_for and       *)
(* update are one step each; time is counted in whole seconds.             *)

LimTasks == 1..MaxTasks

\* self.action_time_queue.popleft() while the queue is longer than the limit
RECURSIVE TrimToLimit(_, _)
KeepAll(queue, limit) == queue

TrimToLimit(queue, limit) ==
    IF Len(queue) > limit THEN TrimToLimit(Tail(queue), limit) ELSE queue

\* FrequencyLimiter.wait_for at time now: the seconds to wait and the queue
\* it leaves
wait_for(queue, limit, window, now) ==
    IF Len(queue) >= limit /\ queue[1] + window - now > 0
    THEN [gap |-> queue[1] + window - now, queue |-> Tail(queue)]
    ELSE [gap |-> 0, queue |-> queue]

\* FrequencyLimiter.update at time now
update(queue, limit, now) == TrimToLimit(Append(queue, now), limit)

LimIdle ==
    /\ request_limit = 0
    /\ time_window_sec = 0
    /\ action_time_queue = <<>>
    /\ clock = 0
    /\ task_pc = <<>>
    /\ wake_at = <<>>
    /\ started_at = <<>>
    /\ last_call = None

\* FrequencyLimiter.__init__, and the tasks about to call it
LimInit ==
    /\ request_limit \in 1..MaxLimit
    /\ time_window_sec \in 1..MaxWindow
    /\ action_time_queue = <<>>
    /\ clock = 0
    /\ task_pc = [t \in LimTasks |-> "start"]
    /\ wake_at = [t \in LimTasks |-> 0]
    /\ started_at = [t \in LimTasks |-> None]
    /\ last_call = None

\* time.sleep(ray.get(frequency_limiter.wait_for.remote())): the call
WaitFor(t) ==
    /\ task_pc[t] = "start"
    /\ \E r \in {wait_for(action_time_queue, request_limit, time_window_sec,
                          clock)} :
        /\ action_time_queue' = r.queue
        /\ last_call' = <<"wait_for", Len(action_time_queue), r.gap>>
        /\ wake_at' = [wake_at EXCEPT ![t] = clock + r.gap]
    /\ task_pc' = [task_pc EXCEPT ![t] = "sleeping"]
    /\ UNCHANGED <<request_limit, time_window_sec, clock, started_at>>
    /\ LimFrame

\* the sleep is over: the task goes on to its work
Wake(t) ==
    /\ task_pc[t] = "sleeping"
    /\ clock >= wake_at[t]
    /\ task_pc' = [task_pc EXCEPT ![t] = "working"]
    /\ started_at' = [started_at EXCEPT ![t] = Some(clock)]
    /\ UNCHANGED <<request_limit, time_window_sec, action_time_queue, clock,
                   wake_at, last_call>>
    /\ LimFrame

\* task_collector.run() returned: frequency_limiter.update.remote() is sent
RunSucceeds(t) ==
    /\ task_pc[t] = "working"
    /\ task_pc' = [task_pc EXCEPT ![t] = "updating"]
    /\ UNCHANGED <<request_limit, time_window_sec, action_time_queue, clock,
                   wake_at, started_at, last_call>>
    /\ LimFrame

\* the trajectory file exists already, or every try of task_collector.run()
\* raised: the task returns and no update is sent
RunFails(t) ==
    /\ task_pc[t] = "working"
    /\ task_pc' = [task_pc EXCEPT ![t] = "returned"]
    /\ UNCHANGED <<request_limit, time_window_sec, action_time_queue, clock,
                   wake_at, started_at, last_call>>
    /\ LimFrame

\* the actor runs the update that was sent
Update(t) ==
    /\ task_pc[t] = "updating"
    /\ action_time_queue' = update(action_time_queue, request_limit, clock)
    /\ last_call' = <<"update", Len(action_time_queue), 0>>
    /\ task_pc' = [task_pc EXCEPT ![t] = "done"]
    /\ UNCHANGED <<request_limit, time_window_sec, clock, wake_at, started_at>>
    /\ LimFrame

\* a second passes
Tick ==
    /\ clock < MaxTime
    /\ clock' = clock + 1
    /\ UNCHANGED <<request_limit, time_window_sec, action_time_queue, task_pc,
                   wake_at, started_at, last_call>>
    /\ LimFrame

LimNext ==
    \/ \E t \in LimTasks : WaitFor(t)
    \/ \E t \in LimTasks : Wake(t)
    \/ \E t \in LimTasks : RunSucceeds(t)
    \/ \E t \in LimTasks : RunFails(t)
    \/ \E t \in LimTasks : Update(t)
    \/ Tick

\* the limiter alone, called in any order by callers that are not modelled
LimCallsInit ==
    /\ request_limit \in 1..MaxLimit
    /\ time_window_sec \in 1..MaxWindow
    /\ action_time_queue = <<>>
    /\ clock = 0
    /\ task_pc = <<>>
    /\ wake_at = <<>>
    /\ started_at = <<>>
    /\ last_call = None

\* one call of FrequencyLimiter.wait_for
CallWaitFor ==
    /\ \E r \in {wait_for(action_time_queue, request_limit, time_window_sec,
                          clock)} :
        /\ action_time_queue' = r.queue
        /\ last_call' = <<"wait_for", Len(action_time_queue), r.gap>>
    /\ UNCHANGED <<request_limit, time_window_sec, clock, task_pc, wake_at,
                   started_at>>
    /\ LimFrame

\* one call of FrequencyLimiter.update
CallUpdate ==
    /\ action_time_queue' = update(action_time_queue, request_limit, clock)
    /\ last_call' = <<"update", Len(action_time_queue), 0>>
    /\ UNCHANGED <<request_limit, time_window_sec, clock, task_pc, wake_at,
                   started_at>>
    /\ LimFrame

LimCallsNext == CallWaitFor \/ CallUpdate \/ Tick

----------------------------------------------------------------------------
(* run_single_benchmark for the dataset visualwebarena: the ids with reset *)
(* run one batch after the other, the others through the pool, and the two *)
(* reward lists are merged                                                 *)

\* browsergym.visualwebarena.VISUALWEBARENA_TASK_IDS_WITH_RESET, among the
\* ids 1..MaxIds
TASK_IDS_WITH_RESET == {1, 3}

\* the id lists get_env_ids_and_task_kwargs returns: sorted, largest first
ResolvedLists ==
    {s \in SeqsUpTo(1..MaxIds, MaxIds) :
        \A i \in 1..(Len(s) - 1) : s[i] > s[i + 1]}

RewardLists(n) == [1..n -> {0, 1}]

\* [env_id for env_id in env_ids if env_id (not) in TASK_IDS_WITH_RESET]
WithReset(ids) == SelectSeq(ids, LAMBDA e : e \in TASK_IDS_WITH_RESET)
WithoutReset(ids) == SelectSeq(ids, LAMBDA e : e \notin TASK_IDS_WITH_RESET)

\* the batch that starts at index i (from 1) of ids
BatchFrom(ids, i, size) == SubSeq(ids, i, Min(i + size - 1, Len(ids)))

\* range(0, len(env_ids), batch_size), counted from 1
BatchStarts(ids, size) == {i \in 1..Len(ids) : (i - 1) % size = 0}

\* the merge loop: final_rewards, or the IndexError of pop(0) on an empty
\* list
RECURSIVE MergeRewards(_, _, _, _)
MergeRewards(ids, with_reset, others, final) ==
    IF ids = <<>> THEN [raised |-> "", rewards |-> final]
    ELSE IF Head(ids) \in TASK_IDS_WITH_RESET
    THEN IF with_reset = <<>>
         THEN [raised |-> "IndexError", rewards |-> final]
         ELSE MergeRewards(Tail(ids), Tail(with_reset), others,
                           Append(final, Head(with_reset)))
    ELSE IF others = <<>>
         THEN [raised |-> "IndexError", rewards |-> final]
         ELSE MergeRewards(Tail(ids), with_reset, Tail(others),
                           Append(final, Head(others)))

VwaIdle ==
    /\ resolved_ids = <<>>
    /\ vwa_batch_size = 1
    /\ env_ids_with_reset = <<>>
    /\ env_ids_rest = <<>>
    /\ rewards_with_reset = <<>>
    /\ processed = 0
    /\ pool_left = {}
    /\ pool_rewards = <<>>
    /\ vwa_pc = "idle"
    /\ vwa_ret = [num_total |-> -1, num_success |-> -1]

\* get_env_ids_and_task_kwargs has returned the ids of a visualwebarena
\* benchmark
VwaInit ==
    /\ resolved_ids \in ResolvedLists
    /\ vwa_batch_size \in 1..MaxBatch
    /\ env_ids_with_reset = <<>>
    /\ env_ids_rest = <<>>
    /\ rewards_with_reset = <<>>
    /\ processed = 0
    /\ pool_left = {}
    /\ pool_rewards = <<>>
    /\ vwa_pc = "split"
    /\ vwa_ret = [num_total |-> -1, num_success |-> -1]

\* env_ids_with_reset = [...]; env_ids = [...]: the name env_ids is bound
\* to the ids without reset from here on
SplitIds ==
    /\ vwa_pc = "split"
    /\ env_ids_with_reset' = WithReset(resolved_ids)
    /\ env_ids_rest' = WithoutReset(resolved_ids)
    /\ vwa_pc' = "with_reset"
    /\ UNCHANGED <<resolved_ids, vwa_batch_size, rewards_with_reset, processed,
                   pool_left, pool_rewards, vwa_ret>>
    /\ VwaFrame

\* one round of the while loop: run_examples_in_subprocess returns the
\* rewards of the batch, or it raises and r = [0] * len(batch), which is
\* one of the lists it may return
ResetBatch ==
    /\ vwa_pc = "with_reset"
    /\ processed < Len(env_ids_with_reset)
    /\ \E b \in {BatchFrom(env_ids_with_reset, processed + 1, vwa_batch_size)} :
        /\ \E r \in RewardLists(Len(b)) \cup {Zeros(Len(b))} :
              rewards_with_reset' = rewards_with_reset \o r
        /\ processed' = processed + Len(b)
    /\ UNCHANGED <<resolved_ids, vwa_batch_size, env_ids_with_reset,
                   env_ids_rest, pool_left, pool_rewards, vwa_pc, vwa_ret>>
    /\ VwaFrame

\* the while loop is over: the batches of env_ids are handed to the pool
\* (or run in the main thread, in order)
SubmitBatches ==
    /\ vwa_pc = "with_reset"
    /\ processed >= Len(env_ids_with_reset)
    /\ pool_left' = BatchStarts(env_ids_rest, vwa_batch_size)
    /\ vwa_pc' = "pool"
    /\ UNCHANGED <<resolved_ids, vwa_batch_size, env_ids_with_reset,
                   env_ids_rest, rewards_with_reset, processed, pool_rewards,
                   vwa_ret>>
    /\ VwaFrame

\* a batch of the pool completes: rewards.extend(r)
PoolBatchReturns(i) ==
    /\ vwa_pc = "pool"
    /\ i \in pool_left
    /\ \E r \in RewardLists(Len(BatchFrom(env_ids_rest, i, vwa_batch_size))) :
          pool_rewards' = pool_rewards \o r
    /\ pool_left' = pool_left \ {i}
    /\ UNCHANGED <<resolved_ids, vwa_batch_size, env_ids_with_reset,
                   env_ids_rest, rewards_with_reset, processed, vwa_pc, vwa_ret>>
    /\ VwaFrame

\* a batch of the pool raises: the exception is printed and nothing is
\* added to rewards
PoolBatchRaises(i) ==
    /\ vwa_pc = "pool"
    /\ i \in pool_left
    /\ pool_left' = pool_left \ {i}
    /\ UNCHANGED <<resolved_ids, vwa_batch_size, env_ids_with_reset,
                   env_ids_rest, rewards_with_reset, processed, pool_rewards,
                   vwa_pc, vwa_ret>>
    /\ VwaFrame

\* the merge over env_ids, sum(rewards) / len(rewards), and the return
MergeAndReturn ==
    /\ vwa_pc = "pool"
    /\ pool_left = {}
    /\ \E m \in {MergeRewards(env_ids_rest, rewards_with_reset, pool_rewards,
                              <<>>)} :
        IF m.raised # ""
        THEN /\ vwa_pc' = m.raised
             /\ vwa_ret' = vwa_ret
        ELSE IF m.rewards = <<>>
        THEN /\ vwa_pc' = "ZeroDivisionError"
             /\ vwa_ret' = vwa_ret
        ELSE /\ vwa_pc' = "done"
             /\ vwa_ret' = [num_total |-> Len(m.rewards),
                            num_success |-> SumSeq(m.rewards)]
    /\ UNCHANGED <<resolved_ids, vwa_batch_size, env_ids_with_reset,
                   env_ids_rest, rewards_with_reset, processed, pool_left,
                   pool_rewards>>
    /\ VwaFrame

VwaNext ==
    \/ SplitIds
    \/ ResetBatch
    \/ SubmitBatches
    \/ \E i \in 1..MaxIds : PoolBatchReturns(i)
    \/ \E i \in 1..MaxIds : PoolBatchRaises(i)
    \/ MergeAndReturn

----------------------------------------------------------------------------
(* trajectory_collection_multiprocess: one worker process per input row    *)

\* what the worker process of a row does: trajectory_collection returns 1
\* (the trajectory was collected, or its file exists already), returns 0
\* (every try of task_collector.run() raised), raises (the process ends with
\* a traceback), or is still running when the budget is over
RowOutcomes == {"collected", "exists", "failed", "raised", "timeout"}

\* the value trajectory_collection returns in the worker process, None when
\* it does not return
trajectory_collection(outcome) ==
    IF outcome \in {"collected", "exists"} THEN Some(1)
    ELSE IF outcome = "failed" THEN Some(0)
    ELSE None

\* run_with_timeout starts the worker with multiprocessing.Process, whose
\* target's return value and exception stay in the worker: it raises
\* TimeoutError for a worker still running after the budget and returns
\* None otherwise
RunWithTimeoutRaises(outcome) == outcome = "timeout"

\* result = 0; try: run_with_timeout(...); result = 1; except TimeoutError
RowFlag(outcome) == IF RunWithTimeoutRaises(outcome) THEN 0 ELSE 1

MpIdle ==
    /\ n_rows = 0
    /\ row_outcomes = <<>>
    /\ mp_results = <<>>
    /\ mp_pc = "idle"

MpInit ==
    /\ n_rows \in 0..MaxRows
    /\ row_outcomes = <<>>
    /\ mp_results = <<>>
    /\ mp_pc = "rows"

\* one iteration of `for _, raw_data_row in input_data_df.iterrows()`
ProcessRow ==
    /\ mp_pc = "rows"
    /\ Len(mp_results) < n_rows
    /\ \E outcome \in RowOutcomes :
        /\ row_outcomes' = Append(row_outcomes, outcome)
        /\ mp_results' = Append(mp_results, RowFlag(outcome))
    /\ UNCHANGED <<n_rows, mp_pc>>
    /\ MpFrame

\* return results
ReturnFlags ==
    /\ mp_pc = "rows"
    /\ Len(mp_results) = n_rows
    /\ mp_pc' = "returned"
    /\ UNCHANGED <<n_rows, row_outcomes, mp_results>>
    /\ MpFrame

MpNext == ProcessRow \/ ReturnFlags

----------------------------------------------------------------------------
(* Specifications *)

Init == SchedInit /\ WorkerIdle /\ KillIdle /\ WaveIdle /\ DivIdle /\ ExIdle
    /\ ShareIdle /\ CiIdle /\ ResIdle /\ LimIdle /\ VwaIdle /\ MpIdle

Next == SchedNext

\* run_single_benchmark
Spec == Init /\ [][Next]_vars

WorkerSpecInit == WorkerInit /\ SchedIdle /\ KillIdle /\ WaveIdle /\ DivIdle
    /\ ExIdle /\ ShareIdle /\ CiIdle /\ ResIdle /\ LimIdle /\ VwaIdle
    /\ MpIdle

WorkerSpecNext == WorkerNext

\* one call of run_examples_in_subprocess
SpecWorker == WorkerSpecInit /\ [][WorkerSpecNext]_vars

KillSpecInit == KillInit /\ SchedIdle /\ WorkerIdle /\ WaveIdle /\ DivIdle
    /\ ExIdle /\ ShareIdle /\ CiIdle /\ ResIdle /\ LimIdle /\ VwaIdle
    /\ MpIdle

\* one call of run_with_timeout, from the timed join on
SpecKill == KillSpecInit /\ [][KillSpecNext]_vars

WaveSpecInit == WaveInit /\ SchedIdle /\ WorkerIdle /\ KillIdle /\ DivIdle
    /\ ExIdle /\ ShareIdle /\ CiIdle /\ ResIdle /\ LimIdle /\ VwaIdle
    /\ MpIdle

\* run_eval_with_wa_service, from the division on
SpecWave == WaveSpecInit /\ [][WaveNext]_vars

\* the same, where every call the loop makes returns or raises: the
\* provisioning, the asserts, the run of a RunUnit
SpecWaveFair == WaveSpecInit /\ [][WaveNext]_vars /\ WF_vars(WaveNext)

DivideSpecInit == DivideInit /\ SchedIdle /\ WorkerIdle /\ KillIdle /\ WaveIdle
    /\ ExIdle /\ ShareIdle /\ CiIdle /\ ResIdle /\ LimIdle /\ VwaIdle
    /\ MpIdle

\* _divide_eval_config, and _divide_eval_config of what it returned
SpecDivide == DivideSpecInit /\ [][DivideNext]_vars

RunEvalSpecInit == RunEvalInit /\ SchedIdle /\ WorkerIdle /\ KillIdle /\ WaveIdle
    /\ ExIdle /\ ShareIdle /\ CiIdle /\ ResIdle /\ LimIdle /\ VwaIdle
    /\ MpIdle

\* run_eval
SpecRunEval == RunEvalSpecInit /\ [][RunEvalNext]_vars

ExSpecInit == ExInit /\ SchedIdle /\ WorkerIdle /\ KillIdle /\ WaveIdle
    /\ DivIdle /\ ShareIdle /\ CiIdle /\ ResIdle /\ LimIdle /\ VwaIdle
    /\ MpIdle

\* one call of run_example
SpecExample == ExSpecInit /\ [][ExNext]_vars

ShareSpecInit == ShareInit /\ SchedIdle /\ WorkerIdle /\ KillIdle /\ WaveIdle
    /\ DivIdle /\ ExIdle /\ CiIdle /\ ResIdle /\ LimIdle /\ VwaIdle /\ MpIdle

\* _divide_eval_config and mutations of the RunUnits it returned
SpecShare == ShareSpecInit /\ [][ShareNext]_vars

CiSpecInit == CiInit /\ SchedIdle /\ WorkerIdle /\ KillIdle /\ WaveIdle
    /\ DivIdle /\ ExIdle /\ ShareIdle /\ ResIdle /\ LimIdle /\ VwaIdle
    /\ MpIdle

\* one call of create_instance
SpecCreate == CiSpecInit /\ [][CiNext]_vars

RunEvalAgentSpecInit == RunEvalAgentInit /\ SchedIdle /\ WorkerIdle /\ KillIdle
    /\ WaveIdle /\ ExIdle /\ ShareIdle /\ CiIdle /\ ResIdle /\ LimIdle
    /\ VwaIdle /\ MpIdle

\* run_eval and run_eval_with_wa_service of one benchmark without include
\* and exclude lists and at most one agent, of any form
SpecRunEvalAgent == RunEvalAgentSpecInit /\ [][RunEvalNext]_vars

ResSpecInit == ResInit /\ SchedIdle /\ WorkerIdle /\ KillIdle /\ WaveIdle
    /\ DivIdle /\ ExIdle /\ ShareIdle /\ CiIdle /\ LimIdle /\ VwaIdle
    /\ MpIdle

\* one call of get_env_ids_and_task_kwargs
SpecResolve == ResSpecInit /\ [][ResNext]_vars

LimSpecInit == LimInit /\ SchedIdle /\ WorkerIdle /\ KillIdle /\ WaveIdle
    /\ DivIdle /\ ExIdle /\ ShareIdle /\ CiIdle /\ ResIdle /\ VwaIdle
    /\ MpIdle

\* concurrent trajectory_collection tasks sharing one FrequencyLimiter
SpecLimiter == LimSpecInit /\ [][LimNext]_vars

LimCallsSpecInit == LimCallsInit /\ SchedIdle /\ WorkerIdle /\ KillIdle
    /\ WaveIdle /\ DivIdle /\ ExIdle /\ ShareIdle /\ CiIdle /\ ResIdle
    /\ VwaIdle /\ MpIdle

\* any sequence of wait_for and update calls on one FrequencyLimiter
SpecLimiterCalls == LimCallsSpecInit /\ [][LimCallsNext]_vars

VwaSpecInit == VwaInit /\ SchedIdle /\ WorkerIdle /\ KillIdle /\ WaveIdle
    /\ DivIdle /\ ExIdle /\ ShareIdle /\ CiIdle /\ ResIdle /\ LimIdle
    /\ MpIdle

\* run_single_benchmark of a visualwebarena benchmark
SpecVwa == VwaSpecInit /\ [][VwaNext]_vars

MpSpecInit == MpInit /\ SchedIdle /\ WorkerIdle /\ KillIdle /\ WaveIdle
    /\ DivIdle /\ ExIdle /\ ShareIdle /\ CiIdle /\ ResIdle /\ LimIdle /\ VwaIdle

\* one call of trajectory_collection_multiprocess
SpecMultiprocess == MpSpecInit /\ [][MpNext]_vars

----------------------------------------------------------------------------
(* Claims *)

\* C1: the reward list run_single_benchmark ends with is positionally
\* aligned with the id list: the i-th reward is that of the i-th id,
\* whichever tasks fail or time out and in whatever order the batches
\* complete.
C1_RewardsAlignedWithIds ==
    pc = "done" => reward_ids = env_ids

\* C2: a batch whose every attempt timed out has reward 0 recorded for each
\* of its ids, and num_total is the number of resolved ids.
C2_ExhaustedTimeoutScoresZero ==
    pc = "done" =>
        /\ \A b \in Batches : batch[b].status = "dropped" =>
              \A j \in 1..Len(BatchIds(b)) :
                 \E i \in DOMAIN rewards :
                    reward_ids[i] = BatchIds(b)[j] /\ rewards[i] = 0
        /\ ret.num_total = Len(env_ids)

\* a task of the worker raised a RuntimeError in its environment interaction
FatalRaised ==
    /\ trace # <<>>
    /\ trace[Len(trace)].k = "RuntimeError"
    /\ trace[Len(trace)].p \in InteractionPoints

\* C9 (as claimed): when a task of a batch raises an ordinary exception at
\* any point of run_example and no task raises a RuntimeError, the batch
\* returns one reward per id, every task of the batch has been executed,
\* the failed task scores 0 and every other task keeps the reward its own
\* run earned.
C9_OrdinaryExceptionContained ==
    ( /\ sub_pc = "returned"
      /\ \E j \in DOMAIN trace : trace[j].k = "Exception"
      /\ \A j \in DOMAIN trace : trace[j].k # "RuntimeError" )
    => /\ Len(result) = Len(example_env_names)
       /\ Len(trace) = Len(example_env_names)
       /\ \A i \in DOMAIN trace :
             result[i] = IF trace[i].k = "none" THEN trace[i].r ELSE 0

C3_NoProcessSurvivesTimeout ==
    never_returns =>
        /\ (kill_pc = "reap" => WorkerPid \notin procs)
        /\ (kill_pc \in {"returned", "TimeoutError"} => procs = {})

\* the number of calls of release_instance with argument a
Released(a) == Cardinality({j \in DOMAIN release_calls : release_calls[j] = a})

\* C4 (as claimed): every instance obtained by provisioning whose RunUnit
\* has ended (normally or by an exception) or whose wave was aborted has
\* been released exactly once, by a call of release_instance with its own
\* id.
C4_InstanceReleasedOnce ==
    \A id \in exited : Released(id) = 1

\* the RunUnits run so far are configs[0], configs[1], ... in queue order
RanInQueueOrder == \A j \in DOMAIN ran : ran[j].config = j - 1

\* C5: a wave that obtained fewer instances than it requested (but at least
\* one) runs exactly the first len(instance_ids) of its RunUnits, the j-th
\* on the j-th obtained address, and the RunUnits it leaves are not
\* dropped: the next wave starts with the first of them.
C5_PartialWaveDefersRest ==
    /\ wave_pc \in {"setup", "run"} =>
          /\ stop_idx - start_idx = Len(instance_ids)
          /\ Len(instance_ids) + deferred = num_instances
          /\ Len(ran) = start_idx + run_i
          /\ \A j \in 1..run_i : ran[start_idx + j].ip = public_ips[j]
    /\ wave_pc = "loop" => Len(ran) = start_idx
    /\ RanInQueueOrder

C5_Witness ==
    /\ wave_pc = "run"
    /\ deferred = 0
    /\ num_instances = 1
    /\ run_i = 1
    /\ start_idx = 3
    /\ n_configs = 4
    /\ max_ips = 4

\* C6 (as claimed): for every configuration u that _divide_eval_config
\* returned for a configuration c, _divide_eval_config(u) returns without
\* an exception a list of length 1 whose only element equals u.
C6_DivisionFixedPoint ==
    \A k \in DOMAIN redivided :
        redivided[k] = [raised |-> "", value |-> <<divided_configs[k]>>]

\* two of the divided configurations have the same result identity
DuplicateIdentity ==
    \E i, j \in DOMAIN divided_configs :
        /\ i # j
        /\ divided_configs[i].benchmarks[1].id = divided_configs[j].benchmarks[1].id
        /\ divided_configs[i].benchmarks[1].config.name =
              divided_configs[j].benchmarks[1].config.name
        /\ divided_configs[i].agents[1].id = divided_configs[j].agents[1].id
        /\ divided_configs[i].agents[1].config.model_config_name =
              divided_configs[j].agents[1].config.model_config_name

\* the id lists carried by the divided configurations of benchmark b1 for
\* agent a1 and one model name, in the order of the division, concatenated
CarriedBy(model) ==
    Flatten([k \in DOMAIN divided_configs |->
        IF /\ divided_configs[k].benchmarks[1].id[1] = "b1"
           /\ divided_configs[k].agents[1].id = "a1"
           /\ divided_configs[k].agents[1].config.model_config_name = Some(model)
        THEN divided_configs[k].benchmarks[1].config.example_ids
        ELSE <<>>])

\* the model names the divided configurations of agent a1 run
ModelsOfA1 ==
    {divided_configs[k].agents[1].config.model_config_name[1] :
        k \in {j \in DOMAIN divided_configs : divided_configs[j].agents[1].id = "a1"}}

\* C7 (as claimed): the id lists the shards of a benchmark carry for one
\* agent and model are consecutive slices of the benchmark's resolved id
\* list and their concatenation is that list (no model name being given
\* twice), and the ids a trial schedules at run time are the ids its
\* configuration carries.
C7_ShardsPartitionResolvedIds ==
    /\ (div_pc = "divided" /\ ~DuplicateIdentity) =>
          \A model \in ModelsOfA1 :
             CarriedBy(model) =
                get_env_ids_and_task_kwargs(full_config.benchmarks[1].config).env_ids
    /\ \A k \in DOMAIN scheduled :
          scheduled[k] = divided_configs[k].benchmarks[1].config.example_ids

\* C8 (as claimed): no two rows of the results table share (benchmark,
\* agent, model), and when the configuration divides into two runs of the
\* same result identity no trial is started: run_eval raises first.
C8_DuplicateRejectedBeforeRun ==
    /\ \A r1, r2 \in aggregated :
          (r1.benchmark = r2.benchmark /\ r1.agent = r2.agent /\ r1.model = r2.model)
             => r1 = r2
    /\ DuplicateIdentity => (trial = 0 /\ scheduled = <<>> /\ results_rows = <<>>)

\* C11: when neither the agent nor the environment ends the episode,
\* run_example performs exactly max_steps environment steps, for every
\* configured max_steps, and then returns reward 0; passing the deadline
\* first ends the loop with reward 0 as well.
C11_StepBudgetStopsLoop ==
    /\ steps_taken <= max_steps
    /\ ended = "budget" => (steps_taken = max_steps /\ reward = 0)
    /\ ended = "deadline" => reward = 0

\* C12: a server run_example started has been cleaned up by the time
\* run_example returns or raises, whichever way it leaves.
C12_ServerCleanedUp ==
    (ex_pc \in {"returned", "raised"} /\ server_handler) => cleanups >= 1

\* C13: batch timeouts, even when they hit every batch of a RunUnit, only
\* lower its score: run_single_benchmark of a non-empty id list returns
\* its counts and raises nothing, so the run goes on to its results table.
C13_FailuresOnlyLowerScores ==
    (env_ids # <<>> /\ pc # "run") => pc = "done"

\* C14: when run_examples_in_subprocess has ended, by returning or by its
\* last TimeoutError, the task of every id of the batch has been executed
\* exactly once: none was skipped and none was run a second time.
C14_EachTaskExecutedOnce ==
    sub_pc \in {"returned", "TimeoutError"} =>
        \A i \in 1..Len(example_env_names) : executed[i] = 1

\* the one benchmark of full_config resolves, without an error, to no id,
\* and the one agent of full_config names its models as the division wants
ResolvesEmpty ==
    /\ Len(full_config.benchmarks) = 1
    /\ Len(full_config.agents) = 1
    /\ full_config.agents[1].config \in PlainAgents
    /\ \E r \in {get_env_ids_and_task_kwargs(full_config.benchmarks[1].config)} :
          r.raised = "" /\ r.env_ids = <<>>

\* C15: a benchmark whose id list resolves to empty, sharded or not, makes
\* run_eval raise nowhere: not in the division, not in a trial and not in
\* the aggregation.
C15_EmptyBenchmarkCompletes ==
    ResolvesEmpty => div_pc \in {"validate", "divide", "divided", "done"}

\* full_config has an open-ended benchmark with sharding enabled, a url
\* pool and at least one example to expand the template id to
ShardedOpenended ==
    \E i \in DOMAIN full_config.benchmarks :
        /\ IsOpenended(full_config.benchmarks[i].config.dataset)
        /\ full_config.benchmarks[i].config.tasks_per_batch > 0
        /\ full_config.benchmarks[i].config.url_pool > 0
        /\ full_config.benchmarks[i].config.max_examples > 0

\* C16: _divide_eval_config raises for a configuration in which an
\* open-ended benchmark has tasks_per_batch > 0, whatever the shard size:
\* it never returns a list of RunUnits for it.
C16_ShardedOpenendedRaises ==
    ShardedOpenended => div_pc # "divided"

\* full_config has an agent with no model name at all: neither
\* model_config_name nor a non-empty model_config_names
NoModelName ==
    \E i \in DOMAIN full_config.agents :
        /\ full_config.agents[i].config.model_config_name = None
        /\ full_config.agents[i].config.model_config_names \in {None, Some(<<>>)}

\* C17: _divide_eval_config raises for a configuration that contains an
\* agent with zero model names: it never returns a list of RunUnits for it.
C17_NoModelNameRaises ==
    NoModelName => div_pc # "divided"

\* full_config has no benchmark, or no agent, or an agent that gives an
\* inline model object or more than one form of model reference
BadConfig ==
    \/ full_config.benchmarks = <<>>
    \/ full_config.agents = <<>>
    \/ \E i \in DOMAIN full_config.agents :
          \/ full_config.agents[i].config.model
          \/ /\ full_config.agents[i].config.model_config_name # None
             /\ full_config.agents[i].config.model_config_names # None

\* C18: for such a configuration run_eval and run_eval_with_wa_service do
\* nothing but raise: validation and division end with ValueError or
\* NotImplementedError, and until then no instance has been requested and
\* no trial has scheduled or run a task.
C18_ConfigErrorsFailFast ==
    BadConfig =>
        /\ div_pc \in {"validate", "divide", "ValueError", "NotImplementedError"}
        /\ n_requested = 0
        /\ trial = 0
        /\ scheduled = <<>>
        /\ results_rows = <<>>

\* run_eval_with_wa_service has raised for an agent that gives both
\* model_config_name and model_config_names
C18_Witness ==
    /\ wa_service
    /\ div_pc = "ValueError"
    /\ full_config.benchmarks # <<>>
    /\ \E i \in DOMAIN full_config.agents :
          /\ ~full_config.agents[i].config.model
          /\ full_config.agents[i].config.model_config_name # None
          /\ full_config.agents[i].config.model_config_names # None

\* C19: the RunUnits _divide_eval_config returns share no mutable state: a
\* part of a RunUnit is changed only by a mutation made through that part
\* of that RunUnit, no object of the configuration given is ever changed
\* by such a mutation, and the division assigns no field of them either.
C19_RunUnitsShareNothing ==
    /\ \A u \in DOMAIN units, part \in Parts :
          units[u][part] \in dirty => <<u, part>> \in mutated
    /\ dirty \cap InputObjects = {}
    /\ written \cap InputObjects = {}

\* C20: create_instance issues at most 10 instance requests, issues a new
\* request only after a request that returned no id and never because of
\* what happened while polling, and returns only a pair that the status
\* query of the id it holds reported ready.
C20_RetriesOnlyFailedRequests ==
    /\ n_requests <= CreateTries
    /\ poll_retries = 0
    /\ ci_pc = "returned" =>
          /\ created # None
          /\ created[1] \in ready_pairs
          /\ created[1][1] = instance_id[1]

\* the include list of res_benchmark with the prefix put in front of the
\* ids that lack it, for a dataset that has a prefix
NormalisedInclude ==
    [i \in DOMAIN res_benchmark.example_ids |->
        IF HasEnvPrefix(res_benchmark.dataset) /\ res_benchmark.example_ids[i] < 0
        THEN -res_benchmark.example_ids[i]
        ELSE res_benchmark.example_ids[i]]

\* the include list when it is not empty, else the universe; minus the
\* exclude list
Candidates ==
    SelectSeq(IF res_benchmark.example_ids # <<>> THEN NormalisedInclude
              ELSE AllIds(res_benchmark),
              LAMBDA x : \A i \in DOMAIN res_benchmark.example_ids_to_skip :
                            res_benchmark.example_ids_to_skip[i] # x)

\* C21: when get_env_ids_and_task_kwargs returns, its ids are the include
\* list (prefix-normalised) if that is not empty and else the universe,
\* minus the exclude list, in descending order, cut to the first
\* max_examples when max_examples > 0, whatever the seed; and it raises
\* when an included id is not in the universe.
C21_ResolutionOrder ==
    /\ res_pc = "returned" =>
          /\ \A i, j \in DOMAIN res_result.env_ids :
                i < j => res_result.env_ids[i] >= res_result.env_ids[j]
          /\ res_result.env_ids =
                SubSeq(SortDesc(Candidates), 1,
                       IF res_benchmark.max_examples > 0
                       THEN Min(res_benchmark.max_examples, Len(Candidates))
                       ELSE Len(Candidates))
    /\ (/\ res_pc \in {"returned", "raised"}
        /\ \E i \in DOMAIN NormalisedInclude :
              ~InSeq(NormalisedInclude[i], Registry(res_benchmark.dataset)))
          => res_pc = "raised"

\* a call with a seed returned an include list of two ids, one written
\* without its prefix, less an excluded id, cut to one id
C21_Witness ==
    /\ res_pc = "returned"
    /\ shuffle_seed # None
    /\ Len(res_benchmark.example_ids) = 2
    /\ \E i \in DOMAIN res_benchmark.example_ids : res_benchmark.example_ids[i] < 0
    /\ res_benchmark.example_ids_to_skip # <<>>
    /\ res_benchmark.max_examples = 1
    /\ Len(Candidates) = 2
    /\ Len(res_result.env_ids) = 1

\* C22: for an open-ended benchmark the resolution returns max_examples
\* ids, all the template id, and max_examples construction arguments, the
\* i-th being the url i mod len(url_pool) of the pool: the two lists have
\* the same length whatever max_examples and the include list are.
C22_OpenendedExpansion ==
    (res_pc = "returned" /\ IsOpenended(res_benchmark.dataset)) =>
        /\ Len(res_result.env_ids) = res_benchmark.max_examples
        /\ \A i \in DOMAIN res_result.env_ids : res_result.env_ids[i] = TemplateId
        /\ Len(res_result.task_kwargs) = res_benchmark.max_examples
        /\ \A i \in DOMAIN res_result.task_kwargs :
              res_result.task_kwargs[i] = ((i - 1) % res_benchmark.url_pool) + 1
        /\ Len(res_result.env_ids) = Len(res_result.task_kwargs)

\* the (benchmark, agent, model) of a row
Triple(row) == <<row.benchmark, row.agent, row.model>>

\* C23: the aggregated table has exactly one row per (benchmark, agent,
\* model) of the per-RunUnit rows, with or without an output directory,
\* and its counts are the sums of num_success and num_total over the rows
\* of that triple.
C23_OneRowPerTriple ==
    div_pc = "done" =>
        /\ \A i \in DOMAIN results_rows :
              \E a \in aggregated : Triple(a) = Triple(results_rows[i])
        /\ \A a, b \in aggregated : Triple(a) = Triple(b) => a = b
        /\ \A a \in aggregated :
              /\ \E i \in DOMAIN results_rows : Triple(results_rows[i]) = Triple(a)
              /\ a.num_success =
                    SumSeq([i \in DOMAIN results_rows |->
                              IF Triple(results_rows[i]) = Triple(a)
                              THEN results_rows[i].num_success ELSE 0])
              /\ a.num_total =
                    SumSeq([i \in DOMAIN results_rows |->
                              IF Triple(results_rows[i]) = Triple(a)
                              THEN results_rows[i].num_total ELSE 0])

\* the tasks that passed the limiter and started their work in the window
\* of time_window_sec seconds that opens at second s
StartedIn(s) ==
    {t \in LimTasks : /\ started_at[t] # None
                      /\ started_at[t][1] >= s
                      /\ started_at[t][1] < s + time_window_sec}

\* C24: with one FrequencyLimiter shared by concurrent trajectory_collection
\* tasks, no more than request_limit of them pass the limiter and start
\* their work within one time window.
C24_AtMostLimitPerWindow ==
    \A s \in 0..MaxTime : Cardinality(StartedIn(s)) <= request_limit

\* C30: after any sequence of wait_for and update calls the timestamp queue
\* holds at most request_limit entries, in non-decreasing time order, and
\* a wait_for that found fewer than request_limit timestamps returned 0.
C30_QueueBoundedAndOrdered ==
    /\ Len(action_time_queue) <= request_limit
    /\ \A i \in 1..(Len(action_time_queue) - 1) :
           action_time_queue[i] <= action_time_queue[i + 1]
    /\ (/\ last_call # None
        /\ last_call[1] = "wait_for"
        /\ last_call[2] < request_limit) => last_call[3] = 0

\* an update found the queue full and dropped its oldest timestamp
C30_Witness ==
    /\ request_limit = MaxLimit
    /\ last_call = <<"update", MaxLimit, 0>>
    /\ Len(action_time_queue) = MaxLimit
    /\ action_time_queue[1] < action_time_queue[MaxLimit]

\* C26: a batch whose worker completed all its tasks (its rewards are in
\* the output queue) is never retried or zeroed: no try is used up after
\* that, and what run_examples_in_subprocess returns is the queue's content.
C26_CompletedBatchKept ==
    [][(sub_pc = "running" /\ output_queue # <<>>)
          => /\ tries' = tries
             /\ sub_pc' # "TimeoutError"
             /\ (sub_pc' = "returned" => result' = output_queue[1])]_vars

\* C27: when task k of a batch raised a RuntimeError in its environment
\* interaction, the list returned for the batch holds, for every task
\* before k, the reward that task's own run earned.
C27_EarlierRewardsKept ==
    (sub_pc = "returned" /\ FatalRaised) =>
        \A i \in 1..(Len(trace) - 1) : result[i] = trace[i].r

\* C28: for the dataset visualwebarena, when some of the resolved ids are
\* ids with reset, run_single_benchmark ends with neither the merge nor the
\* success rate raising, and the num_total it returns is the number of
\* resolved ids, of both groups together.
C28_EveryIdContributesOneReward ==
    WithReset(resolved_ids) # <<>> =>
        /\ vwa_pc \notin {"IndexError", "ZeroDivisionError"}
        /\ vwa_pc = "done" => vwa_ret.num_total = Len(resolved_ids)

\* the wave loop has ended: by its return or by an exception
WaveEnded == wave_pc \in {"done", "ValueError", "AssertionError", "raised"}

\* C29: every pass of the wave loop that does not leave by an exception
\* moves start_idx forward, having run the RunUnits in between; no more
\* passes are begun than there are RunUnits; when the loop returns every
\* RunUnit has been run exactly once, in queue order; and the loop ends.
C29_WaveLoopProgress ==
    /\ [][ /\ (wave_pc = "run" /\ wave_pc' = "loop") =>
                 /\ start_idx' > start_idx
                 /\ Len(ran') = start_idx'
           /\ n_waves' <= n_configs
           /\ wave_pc' = "done" =>
                 /\ Len(ran') = n_configs
                 /\ \A j \in DOMAIN ran' : ran'[j].config = j - 1
         ]_vars
    /\ <>WaveEnded

\* the loop returned after as many passes as there are RunUnits, each pass
\* having obtained fewer instances than it requested
C29_Witness ==
    /\ wave_pc = "done"
    /\ n_configs = MaxConfigs
    /\ max_ips = MaxConfigs
    /\ n_waves = n_configs
    /\ Len(ran) = n_configs

\* C25: trajectory_collection_multiprocess returns one flag per input row,
\* in row order, and the flag of a row is 1 exactly when trajectory_collection
\* returned 1 for that row: 0 when it returned 0, raised or timed out.
C25_FlagTellsSuccess ==
    mp_pc = "returned" =>
        /\ Len(mp_results) = n_rows
        /\ \A i \in 1..n_rows :
              mp_results[i] = 1 <=> trajectory_collection(row_outcomes[i]) = Some(1)

====
